---- MODULE Spec2Model ----
(***************************************************************************)
(* Model of the agent-rag retriever: temporal decay, result fusion and the *)
(* retrieval coordinator (AgentRAGRetriever) with its reader/writer guard. *)
(*                                                                         *)
(* Scores and weights are float64 in the source.  They are modelled as     *)
(* fixed-point integers with Scale units per 1.0; a float product a*b is   *)
(* (a*b) \div Scale.  Time is counted in ticks of 15 minutes.              *)
(***************************************************************************)
EXTENDS Integers, Sequences, FiniteSets, TLC

\* ------------------------------------------------------------------ bounds
\* number of clock ticks the wall clock may advance after construction
MaxTicks == 1
\* largest age, in ticks, of the inputs of the decay specification
MaxAge == 8
\* largest post-dating, in ticks, of the inputs of the decay specification
MaxAhead == 2

\* number of conversation turns added in the adapter specification
MaxTurns == 2
\* longest query text escaped, in characters
MaxLen == 3

\* ------------------------------------------------------- numeric substrate
\* fixed-point unit: the integer that stands for the float64 value 1.0
Scale == 10000

\* the float64 value +Inf (1.0 / 0 in mergeRRF when k + rank = 0)
PosInf == 2000000000

\* the float64 value NaN (+Inf * 0 in mergeRRF when a weight is 0)
NaN == 2000000001

\* float64 product of two non-negative fixed-point values
FMul(a, b) ==
    IF a = NaN \/ b = NaN THEN NaN
    ELSE IF a = PosInf \/ b = PosInf THEN (IF a = 0 \/ b = 0 THEN NaN ELSE PosInf)
    ELSE (a * b) \div Scale

\* float64 sum of two fixed-point values
FAdd(a, b) ==
    IF a = NaN \/ b = NaN THEN NaN
    ELSE IF a = PosInf \/ b = PosInf THEN PosInf
    ELSE a + b

\* float64 a > b: false as soon as one side is NaN
FGt(a, b) == a # NaN /\ b # NaN /\ a > b

\* 2^(-j/4) for j = 0..3, in fixed point
Pow2Frac == <<10000, 8409, 7071, 5946>>

RECURSIVE Pow2(_)
Pow2(n) == IF n <= 0 THEN 1 ELSE 2 * Pow2(n - 1)

\* currentTime.Sub(timestamp).Minutes() for two tick counts
SubMinutes(currentTime, timestamp) == (currentTime - timestamp) * 15

\* math.Exp(-math.Ln2 * timeDiff / halfLife) = 2^(-timeDiff/halfLife), in
\* fixed point; exact to four digits when 4*timeDiff is a multiple of halfLife
ExpDecay(timeDiff, halfLife) ==
    LET q == timeDiff \div halfLife
        r == timeDiff % halfLife
        j == (4 * r) \div halfLife
    IN  IF q >= 0 THEN Pow2Frac[j + 1] \div Pow2(q)
                  ELSE Pow2Frac[j + 1] * Pow2(0 - q)

\* ------------------------------------------------------------------- types
SourceStatic == "static"
SourceConversation == "conversation"

\* a nil *time.Time is the empty sequence, a set one is <<tick>>
NoTimestamp == <<>>

ErrNil == "nil"
ErrInvalidWeight == "weight must be between 0 and 1"
ErrInvalidHalfLife == "half-life must be positive"
ErrInvalidMinWeight == "minimum weight must be between 0 and 1"
ErrClosedRetriever == "retriever is closed"
ErrBothFailed == "both searches failed"
ErrCancelled == "context canceled"

\* ------------------------------------------------------------- MergeConfig
DefaultMergeConfig ==
    [StaticWeight |-> 6000, ConversationWeight |-> 4000,
     TemporalDecayEnabled |-> TRUE, HalfLifeMinutes |-> 30,
     MinTemporalWeight |-> 100, Algorithm |-> "weighted", RRFK |-> 60]

\* Validate without the ConversationWeight range check
ValidateNoConvWeight(c) ==
    IF c.StaticWeight < 0 \/ c.StaticWeight > Scale THEN ErrInvalidWeight
    ELSE IF c.HalfLifeMinutes <= 0 THEN ErrInvalidHalfLife
    ELSE IF c.MinTemporalWeight < 0 \/ c.MinTemporalWeight > Scale THEN ErrInvalidMinWeight
    ELSE ErrNil

Validate(c) ==
    IF c.StaticWeight < 0 \/ c.StaticWeight > Scale THEN ErrInvalidWeight
    ELSE IF c.ConversationWeight < 0 \/ c.ConversationWeight > Scale THEN ErrInvalidWeight
    ELSE IF c.HalfLifeMinutes <= 0 THEN ErrInvalidHalfLife
    ELSE IF c.MinTemporalWeight < 0 \/ c.MinTemporalWeight > Scale THEN ErrInvalidMinWeight
    ELSE ErrNil

\* ----------------------------------------------------------- TemporalDecay
NewTemporalDecay(halfLifeMinutes, minWeight, enabled) ==
    [halfLifeMinutes |-> halfLifeMinutes, minWeight |-> minWeight, enabled |-> enabled]

\* the zero value of the struct, before a retriever exists
NoDecay == NewTemporalDecay(0, 0, FALSE)

\* Apply without the minimum-weight floor
ApplyNoFloor(td, score, timestamp, currentTime) ==
    IF ~td.enabled THEN score
    ELSE FMul(score, ExpDecay(SubMinutes(currentTime, timestamp), td.halfLifeMinutes))

\* Apply without the "if !td.enabled" return
ApplyAlways(td, score, timestamp, currentTime) ==
    LET decayFactor == ExpDecay(SubMinutes(currentTime, timestamp), td.halfLifeMinutes)
    IN  FMul(score, IF decayFactor < td.minWeight THEN td.minWeight ELSE decayFactor)

Apply(td, score, timestamp, currentTime) ==
    IF ~td.enabled THEN score
    ELSE LET timeDiff == SubMinutes(currentTime, timestamp)
             decayFactor == ExpDecay(timeDiff, td.halfLifeMinutes)
             floored == IF decayFactor < td.minWeight THEN td.minWeight ELSE decayFactor
         IN  FMul(score, floored)

\* the else branch missing: only the decayed records are appended
ApplyToResultsDecayedOnly(td, results, currentTime) ==
    LET stamped == SelectSeq(results, LAMBDA r : r.source = SourceConversation /\ r.ts # NoTimestamp)
    IN  [i \in 1..Len(stamped) |->
            [stamped[i] EXCEPT !.score = Apply(td, stamped[i].score, stamped[i].ts[1], currentTime)]]

ApplyToResults(td, results, currentTime) ==
    [i \in 1..Len(results) |->
        IF results[i].source = SourceConversation /\ results[i].ts # NoTimestamp
        THEN [results[i] EXCEPT !.score = Apply(td, results[i].score, results[i].ts[1], currentTime)]
        ELSE results[i]]

\* ------------------------------------------------------------ ResultMerger
EmptyMap == [x \in {} |-> 0]

Put(m, k, v) == (k :> v) @@ m

Swap(data, i, j) == [data EXCEPT ![i] = data[j], ![j] = data[i]]

\* the inner loop of the insertion sort: data[j] moves towards the front
\* while less(j, j-1), that is while its score is greater
RECURSIVE Sink(_, _)
Sink(data, j) ==
    IF j > 1 /\ FGt(data[j].score, data[j - 1].score)
    THEN Sink(Swap(data, j, j - 1), j - 1)
    ELSE data

\* sort.Slice(results, func(i, j) { return results[i].Score > results[j].Score })
\* on a slice of at most 12 elements, which sort.Slice sorts by insertion
RECURSIVE InsertionSort(_, _)
InsertionSort(data, i) ==
    IF i > Len(data) THEN data ELSE InsertionSort(Sink(data, i), i + 1)

\* "for id, score := range scoreMap": a Go map is ranged over in any order
MapOrders(records) ==
    LET n == Cardinality(records)
    IN  {s \in [1..n -> records] : \A i, j \in 1..n : i # j => s[i] # s[j]}

\* every list the final sort.Slice can leave: the records come out of the map
\* in any order, so records with equal scores may end in any relative order,
\* and a NaN score, which compares false both ways, stays where it came out
SortedDescending(records) == {InsertionSort(order, 2) : order \in MapOrders(records)}

\* the (scoreMap, resultMap) pair turned back into records
Fused(maps) ==
    {[maps.result[id] EXCEPT !.score = maps.score[id]] : id \in DOMAIN maps.score}

RECURSIVE WeightedStaticLoop(_, _, _, _)
WeightedStaticLoop(cfg, staticResults, i, maps) ==
    IF i > Len(staticResults) THEN maps
    ELSE LET result == staticResults[i]
             weightedScore == FMul(result.score, cfg.StaticWeight)
         IN  WeightedStaticLoop(cfg, staticResults, i + 1,
                 [score |-> Put(maps.score, result.id, weightedScore),
                  result |-> Put(maps.result, result.id, result)])

RECURSIVE WeightedConvLoop(_, _, _, _, _, _)
WeightedConvLoop(cfg, td, convResults, currentTime, i, maps) ==
    IF i > Len(convResults) THEN maps
    ELSE LET result == convResults[i]
             weightedScore ==
                 IF result.ts # NoTimestamp
                 THEN Apply(td, FMul(result.score, cfg.ConversationWeight), result.ts[1], currentTime)
                 ELSE FMul(result.score, cfg.ConversationWeight)
         IN  WeightedConvLoop(cfg, td, convResults, currentTime, i + 1,
                 IF result.id \in DOMAIN maps.score
                 THEN [maps EXCEPT !.score = Put(maps.score, result.id,
                                                 FAdd(maps.score[result.id], weightedScore))]
                 ELSE [score |-> Put(maps.score, result.id, weightedScore),
                       result |-> Put(maps.result, result.id, result)])

mergeWeighted(cfg, td, staticResults, convResults, currentTime) ==
    LET afterStatic == WeightedStaticLoop(cfg, staticResults, 1,
                           [score |-> EmptyMap, result |-> EmptyMap])
        afterConv == WeightedConvLoop(cfg, td, convResults, currentTime, 1, afterStatic)
    IN  SortedDescending(Fused(afterConv))

\* 1.0 / (k + float64(rank))
RankScore(k, rank) == IF k + rank = 0 THEN PosInf ELSE Scale \div (k + rank)

RECURSIVE RRFStaticLoop(_, _, _, _)
RRFStaticLoop(cfg, staticResults, i, maps) ==
    IF i > Len(staticResults) THEN maps
    ELSE LET result == staticResults[i]
             weightedScore == FMul(RankScore(cfg.RRFK, i - 1), cfg.StaticWeight)
         IN  RRFStaticLoop(cfg, staticResults, i + 1,
                 [score |-> Put(maps.score, result.id, weightedScore),
                  result |-> Put(maps.result, result.id, result)])

RECURSIVE RRFConvLoop(_, _, _, _)
RRFConvLoop(cfg, decayedConv, i, maps) ==
    IF i > Len(decayedConv) THEN maps
    ELSE LET result == decayedConv[i]
             weightedScore == FMul(RankScore(cfg.RRFK, i - 1), cfg.ConversationWeight)
         IN  RRFConvLoop(cfg, decayedConv, i + 1,
                 IF result.id \in DOMAIN maps.score
                 THEN [maps EXCEPT !.score = Put(maps.score, result.id,
                                                 FAdd(maps.score[result.id], weightedScore))]
                 ELSE [score |-> Put(maps.score, result.id, weightedScore),
                       result |-> Put(maps.result, result.id, result)])

\* what the in-place sort.Slice of the decayed conversation list leaves
SortedPositions(list) == {InsertionSort(list, 2)}

mergeRRF(cfg, td, staticResults, convResults, currentTime) ==
    LET afterStatic == RRFStaticLoop(cfg, staticResults, 1,
                           [score |-> EmptyMap, result |-> EmptyMap])
        decayed == ApplyToResults(td, convResults, currentTime)
    IN  UNION {SortedDescending(Fused(RRFConvLoop(cfg, decayedConv, 1, afterStatic))) :
                 decayedConv \in SortedPositions(decayed)}

\* a fusion without the id-keyed maps: the two lists appended and sorted
MergeAppended(cfg, td, staticResults, convResults, currentTime) ==
    {InsertionSort(staticResults \o ApplyToResults(td, convResults, currentTime), 2)}

\* the set of lists Merge may return
Merge(cfg, td, staticResults, convResults, currentTime) ==
    IF cfg.Algorithm \in {"rrf", "reciprocal_rank_fusion"}
    THEN mergeRRF(cfg, td, staticResults, convResults, currentTime)
    ELSE mergeWeighted(cfg, td, staticResults, convResults, currentTime)

\* the slice bound off by one: mergedResults[:query.Limit+1]
TruncateOneMore(mergedResults, limit) ==
    IF limit > 0 /\ Len(mergedResults) > limit
    THEN SubSeq(mergedResults, 1, limit + 1)
    ELSE mergedResults

\* mergedResults[:query.Limit] when the limit is positive and exceeded
Truncate(mergedResults, limit) ==
    IF limit > 0 /\ Len(mergedResults) > limit
    THEN SubSeq(mergedResults, 1, limit)
    ELSE mergedResults

\* ------------------------------------------------------------------- state
Procs == {"p1", "p2"}

VARIABLES
    built,            \* NewAgentRAGRetriever has returned a retriever
    ctorErr,          \* error of the last NewAgentRAGRetriever call
    heap,             \* the MergeConfig objects callers hold, by pointer
    r_config,         \* AgentRAGRetriever.config (pointer)
    r_td,             \* AgentRAGRetriever.temporalDecay
    rm_config,        \* ResultMerger.config (pointer)
    rm_td,            \* ResultMerger.temporalDecay
    closed,           \* AgentRAGRetriever.closed
    rlocks,           \* goroutines holding r.mu for reading
    wmutex,           \* goroutine that called r.mu.Lock (pending or holding)
    transportCloses,  \* calls of WeaviateClient.Close on the retriever's client
    clock,            \* time.Now(), in ticks
    closeReturned,    \* some Close call has returned
    op, pc,           \* per caller: operation in progress and position in it
    qlimit,           \* per caller: query.Limit of the call
    cfgArg,           \* per caller: config pointer passed to UpdateConfig
    ctx,              \* per caller: the call's context is cancelled
    sRes, cRes,       \* per caller: outcome of the two sub-searches
    used,             \* per caller: config values the merge has read so far
    nowAt,            \* per caller: the time.Now() taken by the call
    ret,              \* per caller: what the call returned
    afterClose,       \* per caller: the call started after a Close returned
    contacted,        \* per caller: the call reached the WeaviateClient
    inForce,          \* per caller: configs in force while its search held the lock
    d_in, d_out, d_fused, d_applied,  \* inputs and outputs of a single Apply
    m_in,             \* inputs of one Merge: config, two responses, reference time
    m_static, m_conv, \* the two lists parsed from the responses
    m_bulk,           \* ApplyToResults of the conversation list
    m_out,            \* the list Merge returned
    m_applied,        \* the Merge has run
    m_again,          \* a second Merge call with the same arguments, and its list
    store,            \* conversation objects held by the backing store
    turns,            \* objects the backing store has created so far
    a_call,           \* the WeaviateClient call in progress or last made
    a_req,            \* the request that call sent to the backing store
    a_resp,           \* the decoded "data" of the response it got
    a_ret,            \* what the call returned
    a_deleted,        \* objects the backing store deleted for the call
    e_in,             \* the query text handed to escapeGraphQL
    e_out,            \* the escaped text
    e_read,           \* what the GraphQL reader makes of "<escaped text>"
    e_applied         \* the text has been escaped and read back

coreVars == <<built, ctorErr, heap, r_config, r_td, rm_config, rm_td, closed,
              rlocks, wmutex, transportCloses, clock, closeReturned, op, pc,
              qlimit, cfgArg, ctx, sRes, cRes, used, nowAt, ret, afterClose,
              contacted, inForce>>
decayVars == <<d_in, d_out, d_fused, d_applied>>
mergeVars == <<m_in, m_static, m_conv, m_bulk, m_out, m_applied, m_again>>
adapterVars == <<store, turns, a_call, a_req, a_resp, a_ret, a_deleted>>
escapeVars == <<e_in, e_out, e_read, e_applied>>
pureVars == <<decayVars, mergeVars, adapterVars, escapeVars>>
vars == <<coreVars, pureVars>>

\* the config objects callers construct (tests and documented defaults)
ConfigObjects ==
    [default |-> DefaultMergeConfig,
     rrf |-> [StaticWeight |-> 5000, ConversationWeight |-> 5000,
              TemporalDecayEnabled |-> FALSE, HalfLifeMinutes |-> 30,
              MinTemporalWeight |-> 100, Algorithm |-> "rrf", RRFK |-> 60],
     update |-> [StaticWeight |-> 7000, ConversationWeight |-> 3000,
                 TemporalDecayEnabled |-> TRUE, HalfLifeMinutes |-> 60,
                 MinTemporalWeight |-> 0, Algorithm |-> "rrf", RRFK |-> 0],
     negWeight |-> [StaticWeight |-> 0 - 1000, ConversationWeight |-> 0,
                    TemporalDecayEnabled |-> FALSE, HalfLifeMinutes |-> 0,
                    MinTemporalWeight |-> 0, Algorithm |-> "", RRFK |-> 0],
     bigWeight |-> [StaticWeight |-> 5000, ConversationWeight |-> 15000,
                    TemporalDecayEnabled |-> TRUE, HalfLifeMinutes |-> 30,
                    MinTemporalWeight |-> 100, Algorithm |-> "weighted", RRFK |-> 60],
     negHalfLife |-> [StaticWeight |-> 5000, ConversationWeight |-> 0,
                      TemporalDecayEnabled |-> FALSE, HalfLifeMinutes |-> 0 - 30,
                      MinTemporalWeight |-> 0, Algorithm |-> "", RRFK |-> 0],
     bigMinWeight |-> [StaticWeight |-> 6000, ConversationWeight |-> 4000,
                       TemporalDecayEnabled |-> TRUE, HalfLifeMinutes |-> 30,
                       MinTemporalWeight |-> 15000, Algorithm |-> "weighted", RRFK |-> 60]]

ConfigPtrs == DOMAIN ConfigObjects

\* a nil *MergeConfig argument of the constructor
NilPtr == "nil"

\* ---------------------------------------------------------- adapter results
Rec(id, score, source, ts) == [id |-> id, score |-> score, source |-> source, ts |-> ts]

\* result lists WeaviateClient.SearchStatic may parse from a response
StaticLists ==
    {<<Rec("A", 5000, SourceStatic, NoTimestamp)>>,
     <<Rec("X", 10000, SourceStatic, NoTimestamp)>>}

\* result lists WeaviateClient.SearchConversation may parse from a response;
\* tick 4 is the time of construction, tick 0 is 60 minutes earlier, tick 6
\* is 30 minutes later, and one record has no parseable timestamp
ConvLists ==
    {<<Rec("B", 9000, SourceConversation, <<0>>), Rec("C", 8000, SourceConversation, <<4>>)>>,
     <<Rec("X", 10000, SourceConversation, <<4>>), Rec("F", 7000, SourceConversation, <<6>>),
       Rec("N", 5000, SourceConversation, NoTimestamp)>>}

\* errors of executeGraphQL / createObject other than cancellation
AdapterErrors == {"transport"}

NoSub == [done |-> FALSE, err |-> ErrNil, results |-> <<>>]
NoUsed == [alg |-> "", sw |-> 0, k |-> 0, cw |-> 0, td |-> NoDecay]
NoRet == [err |-> ErrNil, sErr |-> ErrNil, cErr |-> ErrNil, results |-> <<>>, id |-> "", count |-> 0]

\* operations that take a context and reach the WeaviateClient
AdapterOps == {"SearchHybrid", "SearchStatic", "SearchConversation", "AddConversationTurn",
               "AddKnowledgeDocument", "PruneOldConversations", "HealthCheck"}
SearchOps == {"SearchHybrid", "SearchStatic", "SearchConversation"}
WriteCallOps == {"AddConversationTurn", "AddKnowledgeDocument", "PruneOldConversations", "HealthCheck"}
AccessorOps == {"GetConfig", "IsClosed"}

\* query.Limit values callers pass
Limits == {0, 1}

\* ------------------------------------------------- decoded JSON responses
\* a value of type interface{} produced by json.Unmarshal: its dynamic type
\* and its content
JNull == [kind |-> "null", val |-> ""]
JStr(text) == [kind |-> "string", val |-> text]
JNum(x) == [kind |-> "number", val |-> x]
JArr(items) == [kind |-> "array", val |-> items]
JMap(fields) == [kind |-> "map", val |-> fields]

\* a map[string]interface{} with no key
NoFields == [key \in {} |-> JNull]

\* RFC 3339 texts of the ticks 0..11: a quarter of an hour apart, tick 4 being
\* the time of construction
TimeStrings ==
    <<"2026-02-20T09:00:00Z", "2026-02-20T09:15:00Z", "2026-02-20T09:30:00Z",
      "2026-02-20T09:45:00Z", "2026-02-20T10:00:00Z", "2026-02-20T10:15:00Z",
      "2026-02-20T10:30:00Z", "2026-02-20T10:45:00Z", "2026-02-20T11:00:00Z",
      "2026-02-20T11:15:00Z", "2026-02-20T11:30:00Z", "2026-02-20T11:45:00Z">>

\* t.UTC().Format(time.RFC3339)
FormatRFC3339(t) == TimeStrings[t + 1]

\* time.Parse(time.RFC3339, text)
ParseRFC3339(text) ==
    IF \E t \in 0..(Len(TimeStrings) - 1) : TimeStrings[t + 1] = text
    THEN [ok |-> TRUE, t |-> CHOOSE t \in 0..(Len(TimeStrings) - 1) : TimeStrings[t + 1] = text]
    ELSE [ok |-> FALSE, t |-> 0]

ErrKeyNotFound == "key not found"
ErrUnexpectedType == "unexpected type at path"

\* DefaultIndexConfig
StaticIndexName == "KnowledgeBase"
ConversationIndexName == "Conversation"

GetResultPath(className) == <<"Get", className>>

\* "for _, key := range path": the walk from data down the path
RECURSIVE Navigate(_, _, _)
Navigate(current, path, i) ==
    IF i > Len(path) THEN [err |-> ErrNil, node |-> current]
    ELSE IF current.kind = "map"
         THEN IF path[i] \in DOMAIN current.val
              THEN Navigate(current.val[path[i]], path, i + 1)
              ELSE [err |-> ErrKeyNotFound, node |-> JNull]
         ELSE [err |-> ErrUnexpectedType, node |-> JNull]

\* a field of a decoded object, when present with the given dynamic type
HasTyped(objMap, key, kind) == key \in DOMAIN objMap /\ objMap[key].kind = kind

extractSearchResult(objMap) ==
    LET additional == IF HasTyped(objMap, "_additional", "map")
                      THEN objMap["_additional"].val ELSE NoFields
    IN  [id |-> IF HasTyped(additional, "id", "string") THEN additional["id"].val ELSE "",
         score |-> IF HasTyped(additional, "score", "number") THEN additional["score"].val ELSE 0,
         source |-> "",
         ts |-> NoTimestamp]

\* "if objects, ok := current.([]interface{}); ok": the elements that are maps
ObjectMaps(current) ==
    IF current.kind = "array" THEN SelectSeq(current.val, LAMBDA obj : obj.kind = "map")
    ELSE <<>>

parseSearchResults(data, path) ==
    LET nav == Navigate(data, path, 1)
        objects == ObjectMaps(nav.node)
    IN  IF nav.err # ErrNil THEN [err |-> nav.err, results |-> <<>>]
        ELSE [err |-> ErrNil,
              results |-> [i \in 1..Len(objects) |->
                              [extractSearchResult(objects[i].val) EXCEPT !.source = SourceStatic]]]

\* "Extract timestamp if present": a string that parses as RFC 3339
ExtractTimestamp(objMap) ==
    IF HasTyped(objMap, "timestamp", "string") /\ ParseRFC3339(objMap["timestamp"].val).ok
    THEN <<ParseRFC3339(objMap["timestamp"].val).t>>
    ELSE NoTimestamp

\* parseConversationResults stamping a record that has no timestamp with the
\* time of construction
parseConversationResultsDefaultTime(data, path) ==
    LET nav == Navigate(data, path, 1)
        objects == ObjectMaps(nav.node)
    IN  IF nav.err # ErrNil THEN [err |-> nav.err, results |-> <<>>]
        ELSE [err |-> ErrNil,
              results |-> [i \in 1..Len(objects) |->
                              [extractSearchResult(objects[i].val)
                                  EXCEPT !.source = SourceConversation,
                                         !.ts = IF ExtractTimestamp(objects[i].val) = NoTimestamp
                                                THEN <<4>> ELSE ExtractTimestamp(objects[i].val)]]]

parseConversationResults(data, path) ==
    LET nav == Navigate(data, path, 1)
        objects == ObjectMaps(nav.node)
    IN  IF nav.err # ErrNil THEN [err |-> nav.err, results |-> <<>>]
        ELSE [err |-> ErrNil,
              results |-> [i \in 1..Len(objects) |->
                              [extractSearchResult(objects[i].val)
                                  EXCEPT !.source = SourceConversation,
                                         !.ts = ExtractTimestamp(objects[i].val)]]]

\* a decoded object of a Get response: _additional{id,score} and its fields
Object(id, score, fields) ==
    JMap(("_additional" :> JMap(("id" :> JStr(id)) @@ ("score" :> JNum(score)))) @@ fields)

\* the "data" of a well-formed Get response for a class
GetResponse(className, items) == JMap("Get" :> JMap(className :> JArr(items)))

\* ------------------------------------------------------------------- Init
InitCore ==
    /\ built = FALSE
    /\ ctorErr = ErrNil
    /\ heap = ConfigObjects
    /\ r_config = NilPtr
    /\ rm_config = NilPtr
    /\ r_td = NoDecay
    /\ rm_td = NoDecay
    /\ closed = FALSE
    /\ rlocks = {}
    /\ wmutex = {}
    /\ transportCloses = 0
    /\ clock = 4
    /\ closeReturned = FALSE
    /\ op = [p \in Procs |-> ""]
    /\ pc = [p \in Procs |-> "idle"]
    /\ qlimit = [p \in Procs |-> 0]
    /\ cfgArg = [p \in Procs |-> NilPtr]
    /\ ctx = [p \in Procs |-> FALSE]
    /\ sRes = [p \in Procs |-> NoSub]
    /\ cRes = [p \in Procs |-> NoSub]
    /\ used = [p \in Procs |-> NoUsed]
    /\ nowAt = [p \in Procs |-> 0]
    /\ ret = [p \in Procs |-> NoRet]
    /\ afterClose = [p \in Procs |-> FALSE]
    /\ contacted = [p \in Procs |-> FALSE]
    /\ inForce = [p \in Procs |-> {}]

NoDecayInput == [score |-> 0, ts |-> 0, now |-> 0, cw |-> 0, td |-> NoDecay]

InitDecayIdle ==
    /\ d_in = NoDecayInput
    /\ d_out = 0
    /\ d_fused = 0
    /\ d_applied = FALSE

\* no Merge under way
NoMergeInput == [cfg |-> DefaultMergeConfig, sresp |-> JNull, cresp |-> JNull, now |-> 0]

InitMergeIdle ==
    /\ m_in = NoMergeInput
    /\ m_static = <<>>
    /\ m_conv = <<>>
    /\ m_bulk = <<>>
    /\ m_out = <<>>
    /\ m_applied = FALSE
    /\ m_again = [done |-> FALSE, results |-> <<>>]

\* no WeaviateClient call made, an empty backing store
NoCall == [op |-> "", since |-> NoTimestamp, until |-> NoTimestamp, metadata |-> NoFields,
           maxAge |-> 0, now |-> 0]
NoRequest == [kind |-> "", class |-> "", since |-> "", until |-> "", cutoff |-> "",
              properties |-> NoFields]
NoResult == [err |-> ErrNil, results |-> <<>>, id |-> "", count |-> 0]

InitAdapterIdle ==
    /\ store = {}
    /\ turns = 0
    /\ a_call = NoCall
    /\ a_req = NoRequest
    /\ a_resp = JNull
    /\ a_ret = NoResult
    /\ a_deleted = 0

InitEscapeIdle ==
    /\ e_in = <<>>
    /\ e_out = <<>>
    /\ e_read = [ok |-> FALSE, value |-> <<>>]
    /\ e_applied = FALSE

Init == InitCore /\ InitDecayIdle /\ InitMergeIdle /\ InitAdapterIdle /\ InitEscapeIdle

\* ------------------------------------------------------------ constructor
NewResultMerger(config) ==
    IF Validate(config) # ErrNil
    THEN [err |-> Validate(config), td |-> NoDecay]
    ELSE [err |-> ErrNil,
          td |-> NewTemporalDecay(config.HalfLifeMinutes, config.MinTemporalWeight,
                                  config.TemporalDecayEnabled)]

\* NewAgentRAGRetriever(host, apiKey, mergeConfig, indexConfig)
NewAgentRAGRetriever(arg) ==
    LET ptr == IF arg = NilPtr THEN "default" ELSE arg
        mergeConfig == heap[ptr]
        merger == NewResultMerger(mergeConfig)
    IN  /\ ~built
        /\ IF Validate(mergeConfig) # ErrNil
           THEN /\ ctorErr' = Validate(mergeConfig)
                /\ UNCHANGED <<built, r_config, r_td, rm_config, rm_td, closed>>
           ELSE IF merger.err # ErrNil
           THEN /\ ctorErr' = merger.err
                /\ UNCHANGED <<built, r_config, r_td, rm_config, rm_td, closed>>
           ELSE /\ ctorErr' = ErrNil
                /\ built' = TRUE
                /\ r_config' = ptr
                /\ rm_config' = ptr
                /\ rm_td' = merger.td
                /\ r_td' = NewTemporalDecay(mergeConfig.HalfLifeMinutes,
                                            mergeConfig.MinTemporalWeight,
                                            mergeConfig.TemporalDecayEnabled)
                /\ closed' = FALSE
        /\ UNCHANGED <<heap, rlocks, wmutex, transportCloses, clock, closeReturned, op, pc,
                       qlimit, cfgArg, ctx, sRes, cRes, used, nowAt, ret, afterClose,
                       contacted, inForce, pureVars>>

\* the wall clock advances
Tick ==
    /\ built
    /\ clock < 4 + MaxTicks
    /\ clock' = clock + 1
    /\ UNCHANGED <<built, ctorErr, heap, r_config, r_td, rm_config, rm_td, closed, rlocks,
                   wmutex, transportCloses, closeReturned, op, pc, qlimit, cfgArg, ctx,
                   sRes, cRes, used, nowAt, ret, afterClose, contacted, inForce, pureVars>>

\* ------------------------------------------------------------------ calls
\* a caller enters operation o with the given arguments
Enter(p, o, limit, config) ==
    /\ built
    /\ pc[p] \in {"idle", "done"}
    /\ op' = [op EXCEPT ![p] = o]
    /\ pc' = [pc EXCEPT ![p] = "start"]
    /\ qlimit' = [qlimit EXCEPT ![p] = limit]
    /\ cfgArg' = [cfgArg EXCEPT ![p] = config]
    /\ ctx' = [ctx EXCEPT ![p] = FALSE]
    /\ sRes' = [sRes EXCEPT ![p] = NoSub]
    /\ cRes' = [cRes EXCEPT ![p] = NoSub]
    /\ used' = [used EXCEPT ![p] = NoUsed]
    /\ nowAt' = [nowAt EXCEPT ![p] = 0]
    /\ ret' = [ret EXCEPT ![p] = NoRet]
    /\ afterClose' = [afterClose EXCEPT ![p] = closeReturned]
    /\ contacted' = [contacted EXCEPT ![p] = FALSE]
    /\ inForce' = [inForce EXCEPT ![p] = {}]
    /\ UNCHANGED <<built, ctorErr, heap, r_config, r_td, rm_config, rm_td, closed, rlocks,
                   wmutex, transportCloses, clock, closeReturned, pureVars>>

\* the callers that issue SearchHybrid (the other callers issue every other
\* operation concurrently with it)
HybridCallers == {"p1"}

CallSearchHybrid(p) ==
    /\ p \in HybridCallers
    /\ \E limit \in Limits : Enter(p, "SearchHybrid", limit, NilPtr)
CallSearch(p) == \E o \in SearchOps \ {"SearchHybrid"} : Enter(p, o, 0, NilPtr)
CallAdapter(p) == \E o \in WriteCallOps : Enter(p, o, 0, NilPtr)
CallAccessor(p) == \E o \in AccessorOps : Enter(p, o, 0, NilPtr)
CallUpdateConfig(p) == \E c \in ConfigPtrs : Enter(p, "UpdateConfig", 0, c)
CallClose(p) == Enter(p, "Close", 0, NilPtr)

\* the caller's context is cancelled while a sub-search of SearchHybrid is
\* still running (no code looks at the context at any other time)
Cancel(p) ==
    /\ op[p] = "SearchHybrid"
    /\ pc[p] = "locked"
    /\ ~sRes[p].done \/ ~cRes[p].done
    /\ ~ctx[p]
    /\ ctx' = [ctx EXCEPT ![p] = TRUE]
    /\ UNCHANGED <<built, ctorErr, heap, r_config, r_td, rm_config, rm_td, closed, rlocks,
                   wmutex, transportCloses, clock, closeReturned, op, pc, qlimit, cfgArg,
                   sRes, cRes, used, nowAt, ret, afterClose, contacted, inForce, pureVars>>

\* the closed check missing from PruneOldConversations
ChecksClosedButPrune(o) == o \in AdapterOps \ {"PruneOldConversations"}

\* the operations that begin with "if r.closed { return ErrClosedRetriever }"
ChecksClosed(o) == o \in AdapterOps

\* r.mu.RLock() succeeds: no writer holds or awaits the lock
CanRLock == wmutex = {}

\* r.mu.RLock(); defer r.mu.RUnlock(); if r.closed { return ErrClosedRetriever }
RLockEnter(p) ==
    /\ pc[p] = "start"
    /\ op[p] \in AdapterOps
    /\ CanRLock
    /\ IF ChecksClosed(op[p]) /\ closed
       THEN /\ pc' = [pc EXCEPT ![p] = "done"]
            /\ ret' = [ret EXCEPT ![p] = [NoRet EXCEPT !.err = ErrClosedRetriever]]
            /\ UNCHANGED <<rlocks, inForce>>
       ELSE /\ pc' = [pc EXCEPT ![p] = "locked"]
            /\ rlocks' = rlocks \cup {p}
            /\ inForce' = [inForce EXCEPT ![p] = IF op[p] = "SearchHybrid" THEN {r_config} ELSE {}]
            /\ UNCHANGED ret
    /\ UNCHANGED <<built, ctorErr, heap, r_config, r_td, rm_config, rm_td, closed, wmutex,
                   transportCloses, clock, closeReturned, op, qlimit, cfgArg, ctx, sRes,
                   cRes, used, nowAt, afterClose, contacted, pureVars>>

\* GetConfig / IsClosed: read under the read lock and return
Accessor(p) ==
    /\ pc[p] = "start"
    /\ op[p] \in AccessorOps
    /\ CanRLock
    /\ pc' = [pc EXCEPT ![p] = "done"]
    /\ ret' = [ret EXCEPT ![p] = [NoRet EXCEPT !.id = IF op[p] = "GetConfig" THEN r_config
                                                     ELSE IF closed THEN "true" ELSE "false"]]
    /\ UNCHANGED <<built, ctorErr, heap, r_config, r_td, rm_config, rm_td, closed, rlocks,
                   wmutex, transportCloses, clock, closeReturned, op, qlimit, cfgArg, ctx,
                   sRes, cRes, used, nowAt, afterClose, contacted, inForce, pureVars>>

\* outcomes of WeaviateClient.SearchStatic under the call's context
StaticOutcomes(cancelled) ==
    IF cancelled THEN {[done |-> TRUE, err |-> ErrCancelled, results |-> <<>>]}
    ELSE {[done |-> TRUE, err |-> ErrNil, results |-> l] : l \in StaticLists}
         \cup {[done |-> TRUE, err |-> e, results |-> <<>>] : e \in AdapterErrors}

\* outcomes of WeaviateClient.SearchConversation under the call's context
ConvOutcomes(cancelled) ==
    IF cancelled THEN {[done |-> TRUE, err |-> ErrCancelled, results |-> <<>>]}
    ELSE {[done |-> TRUE, err |-> ErrNil, results |-> l] : l \in ConvLists}
         \cup {[done |-> TRUE, err |-> e, results |-> <<>>] : e \in AdapterErrors}

\* outcomes of createObject / executeBatchDelete / HealthCheck
CallOutcomes(cancelled) ==
    IF cancelled THEN {ErrCancelled} ELSE {ErrNil} \cup AdapterErrors

\* ------------------------------------------------- single-source operations
\* AgentRAGRetriever.SearchStatic after the closed check
SearchStatic(p) ==
    /\ pc[p] = "locked"
    /\ op[p] = "SearchStatic"
    /\ \E cancelled \in BOOLEAN : \E out \in StaticOutcomes(cancelled) :
          ret' = [ret EXCEPT ![p] = [NoRet EXCEPT !.err = out.err, !.results = out.results]]
    /\ contacted' = [contacted EXCEPT ![p] = TRUE]
    /\ pc' = [pc EXCEPT ![p] = "done"]
    /\ rlocks' = rlocks \ {p}
    /\ UNCHANGED <<built, ctorErr, heap, r_config, r_td, rm_config, rm_td, closed, wmutex,
                   transportCloses, clock, closeReturned, op, qlimit, cfgArg, ctx, sRes,
                   cRes, used, nowAt, afterClose, inForce, pureVars>>

\* AgentRAGRetriever.SearchConversation after the closed check
SearchConversation(p) ==
    /\ pc[p] = "locked"
    /\ op[p] = "SearchConversation"
    /\ \E cancelled \in BOOLEAN : \E out \in ConvOutcomes(cancelled) :
          IF out.err # ErrNil
          THEN /\ ret' = [ret EXCEPT ![p] = [NoRet EXCEPT !.err = out.err]]
               /\ UNCHANGED nowAt
          ELSE /\ nowAt' = [nowAt EXCEPT ![p] = clock]
               /\ ret' = [ret EXCEPT ![p] =
                             [NoRet EXCEPT !.results = ApplyToResults(r_td, out.results, clock)]]
    /\ contacted' = [contacted EXCEPT ![p] = TRUE]
    /\ pc' = [pc EXCEPT ![p] = "done"]
    /\ rlocks' = rlocks \ {p}
    /\ UNCHANGED <<built, ctorErr, heap, r_config, r_td, rm_config, rm_td, closed, wmutex,
                   transportCloses, clock, closeReturned, op, qlimit, cfgArg, ctx, sRes,
                   cRes, used, afterClose, inForce, pureVars>>

\* AddConversationTurn, AddKnowledgeDocument, PruneOldConversations and
\* HealthCheck after the closed check: one adapter call, its result returned
AdapterCall(p) ==
    /\ pc[p] = "locked"
    /\ op[p] \in WriteCallOps
    /\ \E cancelled \in BOOLEAN : \E e \in CallOutcomes(cancelled) :
          ret' = [ret EXCEPT ![p] =
                    [NoRet EXCEPT !.err = e,
                                  !.id = IF e = ErrNil /\ op[p] \in {"AddConversationTurn",
                                                                      "AddKnowledgeDocument"}
                                         THEN "id" ELSE "",
                                  !.count = 0]]
    /\ contacted' = [contacted EXCEPT ![p] = TRUE]
    /\ pc' = [pc EXCEPT ![p] = "done"]
    /\ rlocks' = rlocks \ {p}
    /\ UNCHANGED <<built, ctorErr, heap, r_config, r_td, rm_config, rm_td, closed, wmutex,
                   transportCloses, clock, closeReturned, op, qlimit, cfgArg, ctx, sRes,
                   cRes, used, nowAt, afterClose, inForce, pureVars>>

\* ------------------------------------------------------------ SearchHybrid
\* the goroutine running r.client.SearchStatic returns
HybridStaticDone(p) ==
    /\ pc[p] = "locked"
    /\ op[p] = "SearchHybrid"
    /\ ~sRes[p].done
    /\ \E out \in StaticOutcomes(ctx[p]) : sRes' = [sRes EXCEPT ![p] = out]
    /\ contacted' = [contacted EXCEPT ![p] = TRUE]
    /\ UNCHANGED <<built, ctorErr, heap, r_config, r_td, rm_config, rm_td, closed, rlocks,
                   wmutex, transportCloses, clock, closeReturned, op, pc, qlimit, cfgArg,
                   ctx, cRes, used, nowAt, ret, afterClose, inForce, pureVars>>

\* the goroutine running r.client.SearchConversation returns
HybridConvDone(p) ==
    /\ pc[p] = "locked"
    /\ op[p] = "SearchHybrid"
    /\ ~cRes[p].done
    /\ \E out \in ConvOutcomes(ctx[p]) : cRes' = [cRes EXCEPT ![p] = out]
    /\ contacted' = [contacted EXCEPT ![p] = TRUE]
    /\ UNCHANGED <<built, ctorErr, heap, r_config, r_td, rm_config, rm_td, closed, rlocks,
                   wmutex, transportCloses, clock, closeReturned, op, pc, qlimit, cfgArg,
                   ctx, sRes, used, nowAt, ret, afterClose, inForce, pureVars>>

\* "||" in place of "&&": any failed sub-search fails the call
JoinErrorStrict(staticErr, convErr) ==
    IF staticErr # ErrNil \/ convErr # ErrNil THEN ErrBothFailed ELSE ErrNil

\* "if staticErr != nil && convErr != nil": the error SearchHybrid returns
JoinError(staticErr, convErr) ==
    IF staticErr # ErrNil /\ convErr # ErrNil THEN ErrBothFailed ELSE ErrNil

\* a composite error that names the static error only
CompositeErrorStaticOnly(staticErr, convErr) ==
    [NoRet EXCEPT !.err = ErrBothFailed, !.sErr = staticErr]

\* return nil, fmt.Errorf("both searches failed: static=%v, conv=%v", ...)
CompositeError(staticErr, convErr) ==
    [NoRet EXCEPT !.err = ErrBothFailed, !.sErr = staticErr, !.cErr = convErr]

\* "if err != nil { results = SearchResults{} }"
OrEmpty(results, err) == IF err # ErrNil THEN <<>> ELSE results

\* wg.Add(1): the wait covers the static sub-search only
WaitReturnsStaticOnly(p) == sRes[p].done

\* wg.Done() not deferred: a sub-search that fails returns without calling it
WaitReturnsUnlessError(p) ==
    sRes[p].done /\ cRes[p].done /\ sRes[p].err = ErrNil /\ cRes[p].err = ErrNil

\* wg.Wait() after wg.Add(2) returns once both goroutines have called wg.Done
WaitReturns(p) == sRes[p].done /\ cRes[p].done

\* wg.Wait() returns; errors are handled; Merge reads rm.config.Algorithm
\* and scores the static list with rm.config.StaticWeight and RRFK
HybridJoin(p) ==
    /\ pc[p] = "locked"
    /\ op[p] = "SearchHybrid"
    /\ WaitReturns(p)
    /\ IF JoinError(sRes[p].err, cRes[p].err) # ErrNil
       THEN /\ ret' = [ret EXCEPT ![p] = CompositeError(sRes[p].err, cRes[p].err)]
            /\ pc' = [pc EXCEPT ![p] = "done"]
            /\ rlocks' = rlocks \ {p}
            /\ UNCHANGED <<used, nowAt>>
       ELSE /\ nowAt' = [nowAt EXCEPT ![p] = clock]
            /\ used' = [used EXCEPT ![p].alg = heap[rm_config].Algorithm,
                                    ![p].sw = heap[rm_config].StaticWeight,
                                    ![p].k = heap[rm_config].RRFK]
            /\ pc' = [pc EXCEPT ![p] = "m_conv"]
            /\ UNCHANGED <<ret, rlocks>>
    /\ UNCHANGED <<built, ctorErr, heap, r_config, r_td, rm_config, rm_td, closed, wmutex,
                   transportCloses, clock, closeReturned, op, qlimit, cfgArg, ctx, sRes,
                   cRes, afterClose, contacted, inForce, pureVars>>

\* the config values a merge has read, as a MergeConfig
UsedConfig(u) ==
    [StaticWeight |-> u.sw, ConversationWeight |-> u.cw,
     TemporalDecayEnabled |-> u.td.enabled, HalfLifeMinutes |-> u.td.halfLifeMinutes,
     MinTemporalWeight |-> u.td.minWeight, Algorithm |-> u.alg, RRFK |-> u.k]

\* the merge scores the conversation list (reads rm.config.ConversationWeight
\* and rm.temporalDecay), sorts, and SearchHybrid truncates and returns
MergeConv(p) ==
    /\ pc[p] = "m_conv"
    /\ LET u == [used[p] EXCEPT !.cw = heap[rm_config].ConversationWeight, !.td = rm_td]
       IN  /\ used' = [used EXCEPT ![p] = u]
           /\ \E mergedResults \in Merge(UsedConfig(u), u.td,
                                         OrEmpty(sRes[p].results, sRes[p].err),
                                         OrEmpty(cRes[p].results, cRes[p].err), nowAt[p]) :
                 ret' = [ret EXCEPT ![p] =
                            [NoRet EXCEPT !.results = Truncate(mergedResults, qlimit[p])]]
    /\ pc' = [pc EXCEPT ![p] = "done"]
    /\ rlocks' = rlocks \ {p}
    /\ UNCHANGED <<built, ctorErr, heap, r_config, r_td, rm_config, rm_td, closed, wmutex,
                   transportCloses, clock, closeReturned, op, qlimit, cfgArg, ctx, sRes,
                   cRes, nowAt, afterClose, contacted, inForce, pureVars>>

\* ------------------------------------------------- UpdateConfig and Close
\* r.mu.Lock() is called: the writer is announced and new readers wait
LockRequest(p) ==
    /\ pc[p] = "start"
    /\ op[p] \in {"UpdateConfig", "Close"}
    /\ wmutex = {}
    /\ wmutex' = {p}
    /\ pc' = [pc EXCEPT ![p] = "wwait"]
    /\ UNCHANGED <<built, ctorErr, heap, r_config, r_td, rm_config, rm_td, closed, rlocks,
                   transportCloses, clock, closeReturned, op, qlimit, cfgArg, ctx, sRes,
                   cRes, used, nowAt, ret, afterClose, contacted, inForce, pureVars>>

\* a writer that does not wait for the readers (RLock taken in place of Lock)
CanLockAnytime == TRUE

\* r.mu.Lock() returns only when no reader holds the lock
CanLock == rlocks = {}

LockAcquire(p) ==
    /\ pc[p] = "wwait"
    /\ CanLock
    /\ pc' = [pc EXCEPT ![p] = "wlocked"]
    /\ UNCHANGED <<built, ctorErr, heap, r_config, r_td, rm_config, rm_td, closed, rlocks,
                   wmutex, transportCloses, clock, closeReturned, op, qlimit, cfgArg, ctx,
                   sRes, cRes, used, nowAt, ret, afterClose, contacted, inForce, pureVars>>

\* UpdateConfig: config.Validate(), then r.config = config
UpdateValidate(p) ==
    /\ pc[p] = "wlocked"
    /\ op[p] = "UpdateConfig"
    /\ IF Validate(heap[cfgArg[p]]) # ErrNil
       THEN /\ ret' = [ret EXCEPT ![p] = [NoRet EXCEPT !.err = Validate(heap[cfgArg[p]])]]
            /\ pc' = [pc EXCEPT ![p] = "done"]
            /\ wmutex' = {}
            /\ UNCHANGED <<r_config, inForce>>
       ELSE /\ r_config' = cfgArg[p]
            /\ inForce' = [q \in Procs |->
                              IF op[q] = "SearchHybrid" /\ pc[q] \in {"locked", "m_conv"}
                              THEN inForce[q] \cup {cfgArg[p]} ELSE inForce[q]]
            /\ pc' = [pc EXCEPT ![p] = "u_merger"]
            /\ UNCHANGED <<ret, wmutex>>
    /\ UNCHANGED <<built, ctorErr, heap, r_td, rm_config, rm_td, closed, rlocks,
                   transportCloses, clock, closeReturned, op, qlimit, cfgArg, ctx, sRes,
                   cRes, used, nowAt, afterClose, contacted, pureVars>>

\* UpdateConfig: r.merger.SetConfig(config), its error ignored
SetConfig(p) ==
    /\ pc[p] = "u_merger"
    /\ IF Validate(heap[cfgArg[p]]) # ErrNil
       THEN UNCHANGED <<rm_config, rm_td>>
       ELSE /\ rm_config' = cfgArg[p]
            /\ rm_td' = NewTemporalDecay(heap[cfgArg[p]].HalfLifeMinutes,
                                         heap[cfgArg[p]].MinTemporalWeight,
                                         heap[cfgArg[p]].TemporalDecayEnabled)
    /\ pc' = [pc EXCEPT ![p] = "u_td"]
    /\ UNCHANGED <<built, ctorErr, heap, r_config, r_td, closed, rlocks, wmutex,
                   transportCloses, clock, closeReturned, op, qlimit, cfgArg, ctx, sRes,
                   cRes, used, nowAt, ret, afterClose, contacted, inForce, pureVars>>

\* UpdateConfig that also re-opens the retriever
UpdateDecayReopen(p) ==
    /\ pc[p] = "u_td"
    /\ r_td' = NewTemporalDecay(heap[cfgArg[p]].HalfLifeMinutes,
                                heap[cfgArg[p]].MinTemporalWeight,
                                heap[cfgArg[p]].TemporalDecayEnabled)
    /\ closed' = FALSE
    /\ pc' = [pc EXCEPT ![p] = "done"]
    /\ wmutex' = {}
    /\ UNCHANGED <<built, ctorErr, heap, r_config, rm_config, rm_td, rlocks,
                   transportCloses, clock, closeReturned, op, qlimit, cfgArg, ctx, sRes,
                   cRes, used, nowAt, ret, afterClose, contacted, inForce, pureVars>>

\* UpdateConfig: r.temporalDecay = NewTemporalDecay(...); return nil
UpdateDecay(p) ==
    /\ pc[p] = "u_td"
    /\ r_td' = NewTemporalDecay(heap[cfgArg[p]].HalfLifeMinutes,
                                heap[cfgArg[p]].MinTemporalWeight,
                                heap[cfgArg[p]].TemporalDecayEnabled)
    /\ pc' = [pc EXCEPT ![p] = "done"]
    /\ wmutex' = {}
    /\ UNCHANGED <<built, ctorErr, heap, r_config, rm_config, rm_td, closed, rlocks,
                   transportCloses, clock, closeReturned, op, qlimit, cfgArg, ctx, sRes,
                   cRes, used, nowAt, ret, afterClose, contacted, inForce, pureVars>>

\* Close without the "if r.closed { return nil }" guard
CloseNoGuard(p) ==
    /\ pc[p] = "wlocked"
    /\ op[p] = "Close"
    /\ closed' = TRUE
    /\ transportCloses' = transportCloses + 1
    /\ pc' = [pc EXCEPT ![p] = "done"]
    /\ wmutex' = {}
    /\ closeReturned' = TRUE
    /\ UNCHANGED <<built, ctorErr, heap, r_config, r_td, rm_config, rm_td, rlocks, clock,
                   op, qlimit, cfgArg, ctx, sRes, cRes, used, nowAt, ret, afterClose,
                   contacted, inForce, pureVars>>

\* Close under the write lock
Close(p) ==
    /\ pc[p] = "wlocked"
    /\ op[p] = "Close"
    /\ IF closed
       THEN UNCHANGED <<closed, transportCloses>>
       ELSE /\ closed' = TRUE
            /\ transportCloses' = transportCloses + 1
    /\ pc' = [pc EXCEPT ![p] = "done"]
    /\ wmutex' = {}
    /\ closeReturned' = TRUE
    /\ UNCHANGED <<built, ctorErr, heap, r_config, r_td, rm_config, rm_td, rlocks, clock,
                   op, qlimit, cfgArg, ctx, sRes, cRes, used, nowAt, ret, afterClose,
                   contacted, inForce, pureVars>>

\* ------------------------------------------- temporal decay in isolation
\* inputs of one TemporalDecay.Apply call: a base score, a record timestamp
\* up to MaxAge ticks before and MaxAhead ticks after the reference time, a
\* conversation weight, and the decay parameters
DecayInputs ==
    [score : {0, 1, 5000, 9000, 10000},
     ts : 0..(MaxAge + MaxAhead),
     now : {MaxAge},
     cw : {4000, 10000},
     td : [halfLifeMinutes : {15, 30, 60}, minWeight : {0, 100, 5000, 10000},
           enabled : BOOLEAN]]

InitDecay ==
    /\ InitCore
    /\ InitEscapeIdle
    /\ InitMergeIdle
    /\ InitAdapterIdle
    /\ d_in \in DecayInputs
    /\ d_out = 0
    /\ d_fused = 0
    /\ d_applied = FALSE

\* the fused score mergeWeighted gives a lone conversation record
FusedAlone(in, timestamp) ==
    LET cfg == [DefaultMergeConfig EXCEPT !.ConversationWeight = in.cw]
        merged == CHOOSE m \in mergeWeighted(cfg, in.td, <<>>,
                      <<Rec("c", in.score, SourceConversation, <<timestamp>>)>>, in.now) : TRUE
    IN  merged[1].score

\* td.Apply(score, timestamp, currentTime) and the fusion of the same record
DecayApply ==
    /\ ~d_applied
    /\ d_out' = Apply(d_in.td, d_in.score, d_in.ts, d_in.now)
    /\ d_fused' = FusedAlone(d_in, d_in.ts)
    /\ d_applied' = TRUE
    /\ UNCHANGED <<d_in, coreVars, mergeVars, adapterVars, escapeVars>>

\* the next record is drawn: another score and timestamp
DecayNext ==
    /\ d_applied
    /\ \E in \in DecayInputs :
          /\ in.td = d_in.td /\ in.cw = d_in.cw
          /\ d_in' = in
    /\ d_out' = 0
    /\ d_fused' = 0
    /\ d_applied' = FALSE
    /\ UNCHANGED <<coreVars, mergeVars, adapterVars, escapeVars>>

NextDecay == DecayApply \/ DecayNext

SpecDecay == InitDecay /\ [][NextDecay]_vars

\* ------------------------------------------------- fusion in isolation
\* fusion configs: the default (weighted, decay on), the config of
\* TestResultMerger_RRF, the same with decay on, and an rrf config that
\* leaves RRFK at its zero value and gives the static side no weight
RRFDecayConfig == [ConfigObjects.rrf EXCEPT !.TemporalDecayEnabled = TRUE]
RRFZeroConfig ==
    [StaticWeight |-> 0, ConversationWeight |-> 10000, TemporalDecayEnabled |-> FALSE,
     HalfLifeMinutes |-> 60, MinTemporalWeight |-> 0, Algorithm |-> "rrf", RRFK |-> 0]
MergeConfigs == {DefaultMergeConfig, ConfigObjects.rrf, RRFDecayConfig, RRFZeroConfig}

StaticObject(id, score) == Object(id, score, "content" :> JStr("text"))

\* a conversation object whose timestamp field holds the given value
ConvObject(id, score, timestamp) ==
    Object(id, score, ("message" :> JStr("turn")) @@ ("timestamp" :> timestamp))

\* responses of the static search: no hit, one hit, two hits, and two hits
\* carrying the same id
StaticResponses ==
    {GetResponse(StaticIndexName, items) : items \in
        {<<>>,
         <<StaticObject("A", 5000)>>,
         <<StaticObject("X", 10000)>>,
         <<StaticObject("A", 5000), StaticObject("X", 10000)>>,
         <<StaticObject("X", 5000), StaticObject("X", 3000)>>}}

\* responses of the conversation search: no hit; an old and a fresh turn; a
\* turn with the id of a document; turns whose timestamp is missing, is no
\* RFC 3339 text or is a number; two hits carrying the same id
ConvResponses ==
    {GetResponse(ConversationIndexName, items) : items \in
        {<<>>,
         <<ConvObject("B", 9000, JStr(FormatRFC3339(0))),
           ConvObject("C", 8000, JStr(FormatRFC3339(4)))>>,
         <<ConvObject("X", 10000, JStr(FormatRFC3339(4)))>>,
         <<Object("N", 5000, "message" :> JStr("turn")),
           ConvObject("G", 6000, JStr("yesterday")),
           ConvObject("U", 4000, JNum(1771581600)),
           ConvObject("B", 9000, JStr(FormatRFC3339(0)))>>,
         <<ConvObject("B", 9000, JStr(FormatRFC3339(0))),
           ConvObject("B", 4000, JStr(FormatRFC3339(4)))>>}}

\* reference times: the time of construction and half an hour later
MergeTimes == {4, 6}

MergeInputs == [cfg : MergeConfigs, sresp : StaticResponses, cresp : ConvResponses,
                now : MergeTimes]

InitMerge ==
    /\ InitCore
    /\ InitEscapeIdle
    /\ InitDecayIdle
    /\ InitAdapterIdle
    /\ m_in \in MergeInputs
    /\ m_static = <<>>
    /\ m_conv = <<>>
    /\ m_bulk = <<>>
    /\ m_out = <<>>
    /\ m_applied = FALSE
    /\ m_again = [done |-> FALSE, results |-> <<>>]

\* both responses are parsed, the conversation list is decayed in bulk (as
\* SearchConversation does) and the two lists are fused (as SearchHybrid does)
ParseAndMerge ==
    /\ ~m_applied
    /\ LET staticResults == parseSearchResults(m_in.sresp, GetResultPath(StaticIndexName)).results
           convResults == parseConversationResults(m_in.cresp,
                              GetResultPath(ConversationIndexName)).results
           td == NewResultMerger(m_in.cfg).td
       IN  /\ m_static' = staticResults
           /\ m_conv' = convResults
           /\ m_bulk' = ApplyToResults(td, convResults, m_in.now)
           /\ m_out' \in Merge(m_in.cfg, td, staticResults, convResults, m_in.now)
    /\ m_applied' = TRUE
    /\ UNCHANGED <<m_in, m_again, coreVars, decayVars, adapterVars, escapeVars>>

\* the same two lists are fused once more, with the same config and the same
\* reference time
MergeAgain ==
    /\ m_applied
    /\ ~m_again.done
    /\ \E merged \in Merge(m_in.cfg, NewResultMerger(m_in.cfg).td, m_static, m_conv, m_in.now) :
          m_again' = [done |-> TRUE, results |-> merged]
    /\ UNCHANGED <<m_in, m_static, m_conv, m_bulk, m_out, m_applied,
                   coreVars, decayVars, adapterVars, escapeVars>>

\* the next pair of responses arrives, under the same config
MergeNext ==
    /\ m_applied
    /\ \E in \in MergeInputs :
          /\ in.cfg = m_in.cfg
          /\ m_in' = in
    /\ m_static' = <<>>
    /\ m_conv' = <<>>
    /\ m_bulk' = <<>>
    /\ m_out' = <<>>
    /\ m_applied' = FALSE
    /\ m_again' = [done |-> FALSE, results |-> <<>>]
    /\ UNCHANGED <<coreVars, decayVars, adapterVars, escapeVars>>

NextMerge == ParseAndMerge \/ MergeAgain \/ MergeNext

SpecMerge == InitMerge /\ [][NextMerge]_vars

\* ------------------------------------------- the adapter and its store
\* The backing store is a set of conversation objects [n, id, timestamp]: n is
\* the order of creation, timestamp the decoded value of the property.

\* identifiers the backing store gives to the objects it creates
StoreIds == <<"c1", "c2", "c3", "c4", "c5", "c6">>

\* turns stored before the coordinator is built: one hour and a quarter of an
\* hour before construction
InitialStore ==
    {[n |-> 1, id |-> StoreIds[1], timestamp |-> JStr(FormatRFC3339(0))],
     [n |-> 2, id |-> StoreIds[2], timestamp |-> JStr(FormatRFC3339(3))]}

\* metadata maps callers pass to AddConversationTurn: none, a topic, and an
\* entry named like the timestamp property
MetadataMaps ==
    {NoFields,
     "topic" :> JStr("billing"),
     "timestamp" :> JStr(FormatRFC3339(0))}

\* Query.TimeRange values: nil, or Since and Until in ticks
TimeRanges == {[since |-> NoTimestamp, until |-> NoTimestamp],
               [since |-> <<3>>, until |-> <<5>>]}

\* maxAge arguments of PruneOldConversations, in ticks
PruneAges == {0, 2}

\* the stored objects in order of creation
RECURSIVE StoreSeq(_)
StoreSeq(objects) ==
    IF objects = {} THEN <<>>
    ELSE LET first == CHOOSE o \in objects : \A q \in objects : o.n <= q.n
         IN  <<first>> \o StoreSeq(objects \ {first})

\* the date of a stored timestamp property, in ticks
DateOf(object) == ParseRFC3339(object.timestamp.val).t

\* the backing store answers a Get on the conversation class: the objects
\* that pass the where filter GreaterThanEqual on timestamp, if one was sent
StoreSelect(objects, sinceTime) ==
    LET hits == {o \in objects : sinceTime = "" \/ DateOf(o) >= ParseRFC3339(sinceTime).t}
        seq == StoreSeq(hits)
    IN  GetResponse(ConversationIndexName,
                    [i \in DOMAIN seq |-> ConvObject(seq[i].id, 8000, seq[i].timestamp)])

\* the objects the backing store deletes for a where filter LessThan on
\* timestamp
StoreDeleted(objects, cutoffTime) ==
    {o \in objects : DateOf(o) < ParseRFC3339(cutoffTime).t}

\* decoded responses that do not have the shape data.Get.<class>[...]: the
\* Get key missing, Get not a map, the class key missing, and the class
\* entry null, a map or a string
MalformedResponses(className) ==
    {JMap(NoFields),
     JMap("Get" :> JStr("unavailable")),
     JMap("Get" :> JMap(NoFields)),
     JMap("Get" :> JMap(className :> JNull)),
     JMap("Get" :> JMap(className :> JMap("error" :> JStr("index not found")))),
     JMap("Get" :> JMap(className :> JStr("")))}

\* qb.ConversationQuery(query.Vector, sinceTime): the request it renders
ConversationQuery(sinceTime) ==
    [NoRequest EXCEPT !.kind = "query", !.class = ConversationIndexName, !.since = sinceTime]

\* qb.HybridQuery(query.Text, query.Vector, 0.5)
HybridQuery ==
    [NoRequest EXCEPT !.kind = "query", !.class = StaticIndexName]

\* qb.BatchDeleteQuery(WhereFilter{"LessThan", ["timestamp"], cutoff})
BatchDeleteQuery(cutoffTime) ==
    [NoRequest EXCEPT !.kind = "delete", !.class = ConversationIndexName, !.cutoff = cutoffTime]

\* executeBatchDelete: the count it returns once the request has succeeded
executeBatchDelete(deleted) == 0

InitAdapter ==
    /\ InitCore
    /\ InitEscapeIdle
    /\ InitDecayIdle
    /\ InitMergeIdle
    /\ store = InitialStore
    /\ turns = 0
    /\ a_call = NoCall
    /\ a_req = NoRequest
    /\ a_resp = JNull
    /\ a_ret = NoResult
    /\ a_deleted = 0

\* WeaviateClient.AddConversationTurn(ctx, message, speaker, metadata)
wc_AddConversationTurn ==
    /\ built /\ ~closed
    /\ turns < MaxTurns
    /\ \E metadata \in MetadataMaps, err \in {ErrNil} \cup AdapterErrors :
          LET properties == metadata @@ ("message" :> JStr("hello"))
                                     @@ ("speaker" :> JStr("user"))
                                     @@ ("timestamp" :> JStr(FormatRFC3339(clock)))
              n == Cardinality(InitialStore) + turns + 1
          IN  /\ a_call' = [NoCall EXCEPT !.op = "AddConversationTurn",
                                          !.metadata = metadata, !.now = clock]
              /\ a_req' = [NoRequest EXCEPT !.kind = "create",
                                            !.class = ConversationIndexName,
                                            !.properties = properties]
              /\ IF err = ErrNil
                 THEN /\ store' = store \cup {[n |-> n, id |-> StoreIds[n],
                                               timestamp |-> properties["timestamp"]]}
                      /\ turns' = turns + 1
                      /\ a_ret' = [NoResult EXCEPT !.id = StoreIds[n]]
                 ELSE /\ a_ret' = [NoResult EXCEPT !.err = err]
                      /\ UNCHANGED <<store, turns>>
    /\ a_resp' = JNull
    /\ a_deleted' = 0
    /\ UNCHANGED <<coreVars, decayVars, mergeVars, escapeVars>>

\* WeaviateClient.PruneOldConversations(ctx, maxAge)
wc_PruneOldConversations ==
    /\ built /\ ~closed
    /\ \E maxAge \in PruneAges, err \in {ErrNil} \cup AdapterErrors :
          LET cutoffTime == FormatRFC3339(clock - maxAge)
          IN  /\ a_call' = [NoCall EXCEPT !.op = "PruneOldConversations",
                                          !.maxAge = maxAge, !.now = clock]
              /\ a_req' = BatchDeleteQuery(cutoffTime)
              /\ IF err = ErrNil
                 THEN /\ store' = store \ StoreDeleted(store, cutoffTime)
                      /\ a_deleted' = Cardinality(StoreDeleted(store, cutoffTime))
                      /\ a_ret' = [NoResult EXCEPT
                                      !.count = executeBatchDelete(StoreDeleted(store, cutoffTime))]
                 ELSE /\ a_ret' = [NoResult EXCEPT !.err = err]
                      /\ a_deleted' = 0
                      /\ UNCHANGED store
    /\ a_resp' = JNull
    /\ UNCHANGED <<turns, coreVars, decayVars, mergeVars, escapeVars>>

\* WeaviateClient.SearchConversation(ctx, query)
wc_SearchConversation ==
    /\ built /\ ~closed
    /\ \E range \in TimeRanges, err \in {ErrNil} \cup AdapterErrors :
          LET sinceTime == IF range.since # NoTimestamp
                           THEN FormatRFC3339(range.since[1]) ELSE ""
              path == GetResultPath(ConversationIndexName)
          IN  /\ a_call' = [NoCall EXCEPT !.op = "SearchConversation", !.since = range.since,
                                          !.until = range.until, !.now = clock]
              /\ a_req' = ConversationQuery(sinceTime)
              /\ IF err # ErrNil
                 THEN /\ a_resp' = JNull
                      /\ a_ret' = [NoResult EXCEPT !.err = err]
                 ELSE \E response \in {StoreSelect(store, sinceTime)}
                                      \cup MalformedResponses(ConversationIndexName) :
                         /\ a_resp' = response
                         /\ a_ret' = [NoResult EXCEPT
                                         !.err = parseConversationResults(response, path).err,
                                         !.results = parseConversationResults(response, path).results]
    /\ a_deleted' = 0
    /\ UNCHANGED <<store, turns, coreVars, decayVars, mergeVars, escapeVars>>

\* WeaviateClient.SearchStatic(ctx, query)
wc_SearchStatic ==
    /\ built /\ ~closed
    /\ \E range \in TimeRanges, err \in {ErrNil} \cup AdapterErrors :
          LET path == GetResultPath(StaticIndexName)
          IN  /\ a_call' = [NoCall EXCEPT !.op = "SearchStatic", !.since = range.since,
                                          !.until = range.until, !.now = clock]
              /\ a_req' = HybridQuery
              /\ IF err # ErrNil
                 THEN /\ a_resp' = JNull
                      /\ a_ret' = [NoResult EXCEPT !.err = err]
                 ELSE \E response \in StaticResponses \cup MalformedResponses(StaticIndexName) :
                         /\ a_resp' = response
                         /\ a_ret' = [NoResult EXCEPT
                                         !.err = parseSearchResults(response, path).err,
                                         !.results = parseSearchResults(response, path).results]
    /\ a_deleted' = 0
    /\ UNCHANGED <<store, turns, coreVars, decayVars, mergeVars, escapeVars>>

NextAdapter ==
    \/ NewAgentRAGRetriever(NilPtr)
    \/ Tick
    \/ wc_AddConversationTurn
    \/ wc_PruneOldConversations
    \/ wc_SearchConversation
    \/ wc_SearchStatic

SpecAdapter == InitAdapter /\ [][NextAdapter]_vars

\* ------------------------------------------- query escaping in isolation
\* A text is a sequence of characters.  The alphabet holds the five characters
\* escapeGraphQL rewrites and two letters, one of them the n of the escape \n.
Alphabet == {"\\", "\"", "\r", "\n", "\t", "n", "a"}

Texts == UNION {[1..n -> Alphabet] : n \in 0..MaxLen}

\* strings.ReplaceAll(s, old, new) for a one-character old
RECURSIVE ReplaceAll(_, _, _)
ReplaceAll(s, old, new) ==
    IF s = <<>> THEN <<>>
    ELSE (IF Head(s) = old THEN new ELSE <<Head(s)>>) \o ReplaceAll(Tail(s), old, new)

\* the double quote is escaped before the backslash
escapeGraphQLQuoteFirst(s) ==
    LET s1 == ReplaceAll(s, "\"", <<"\\", "\"">>)
        s2 == ReplaceAll(s1, "\\", <<"\\", "\\">>)
        s3 == ReplaceAll(s2, "\n", <<"\\", "n">>)
        s4 == ReplaceAll(s3, "\r", <<"\\", "r">>)
    IN  ReplaceAll(s4, "\t", <<"\\", "t">>)

escapeGraphQL(s) ==
    LET s1 == ReplaceAll(s, "\\", <<"\\", "\\">>)
        s2 == ReplaceAll(s1, "\"", <<"\\", "\"">>)
        s3 == ReplaceAll(s2, "\n", <<"\\", "n">>)
        s4 == ReplaceAll(s3, "\r", <<"\\", "r">>)
    IN  ReplaceAll(s4, "\t", <<"\\", "t">>)

\* the character an escape sequence \c of a GraphQL string literal stands for
EscapedCharacter ==
    ("\"" :> "\"") @@ ("\\" :> "\\") @@ ("n" :> "\n") @@
    ("r" :> "\r") @@ ("t" :> "\t")

\* The body of the literal query:"..." as a GraphQL reader takes it: a double
\* quote ends the literal, a line terminator is not allowed in it, a backslash
\* starts an escape sequence, any other character stands for itself.  The
\* reading fails when the literal ends before the body does.
RECURSIVE ReadStringValue(_, _, _)
ReadStringValue(body, i, value) ==
    IF i > Len(body) THEN [ok |-> TRUE, value |-> value]
    ELSE IF body[i] \in {"\"", "\r", "\n"} THEN [ok |-> FALSE, value |-> value]
    ELSE IF body[i] = "\\"
    THEN IF i < Len(body) /\ body[i + 1] \in DOMAIN EscapedCharacter
         THEN ReadStringValue(body, i + 2, Append(value, EscapedCharacter[body[i + 1]]))
         ELSE [ok |-> FALSE, value |-> value]
    ELSE ReadStringValue(body, i + 1, Append(value, body[i]))

InitEscape ==
    /\ InitCore
    /\ InitDecayIdle
    /\ InitMergeIdle
    /\ InitAdapterIdle
    /\ e_in \in Texts
    /\ e_out = <<>>
    /\ e_read = [ok |-> FALSE, value |-> <<>>]
    /\ e_applied = FALSE

\* HybridQuery escapes the query text and puts it between double quotes; the
\* backing store reads the literal
EscapeQueryText ==
    /\ ~e_applied
    /\ e_out' = escapeGraphQL(e_in)
    /\ e_read' = ReadStringValue(escapeGraphQL(e_in), 1, <<>>)
    /\ e_applied' = TRUE
    /\ UNCHANGED <<e_in, coreVars, decayVars, mergeVars, adapterVars>>

\* the next query text: the last one with a character typed after it, or an
\* empty one
EscapeNext ==
    /\ e_applied
    /\ e_in' \in {<<>>} \cup {Append(e_in, c) : c \in {x \in Alphabet : Len(e_in) < MaxLen}}
    /\ e_out' = <<>>
    /\ e_read' = [ok |-> FALSE, value |-> <<>>]
    /\ e_applied' = FALSE
    /\ UNCHANGED <<coreVars, decayVars, mergeVars, adapterVars>>

NextEscape == EscapeQueryText \/ EscapeNext

SpecEscape == InitEscape /\ [][NextEscape]_vars

\* ---------------------------------------------------------- specification
Next ==
    \/ \E arg \in ConfigPtrs \cup {NilPtr} : NewAgentRAGRetriever(arg)
    \/ Tick
    \/ \E p \in Procs :
          \/ CallSearchHybrid(p)
          \/ CallSearch(p)
          \/ CallAdapter(p)
          \/ CallAccessor(p)
          \/ CallUpdateConfig(p)
          \/ CallClose(p)
          \/ Cancel(p)
          \/ RLockEnter(p)
          \/ Accessor(p)
          \/ SearchStatic(p)
          \/ SearchConversation(p)
          \/ AdapterCall(p)
          \/ HybridStaticDone(p)
          \/ HybridConvDone(p)
          \/ HybridJoin(p)
          \/ MergeConv(p)
          \/ LockRequest(p)
          \/ LockAcquire(p)
          \/ UpdateValidate(p)
          \/ SetConfig(p)
          \/ UpdateDecay(p)
          \/ Close(p)

Spec == Init /\ [][Next]_vars

\* ------------------------------------------------ the lock protocol alone
\* Progress depends on the locks and the wait group, not on the records: here
\* every search returns the first list of its pool or an error, UpdateConfig
\* is given one valid and one invalid config, and the calls made are the
\* searches, UpdateConfig and Close.
FirstList(results) == results = <<>> \/ results[1].id \in {"A", "B"}

\* the steps of a call that wait for nothing but the adapter or the scheduler
Returns(p) ==
    \/ SearchStatic(p) /\ FirstList(ret'[p].results)
    \/ SearchConversation(p) /\ FirstList(ret'[p].results)
    \/ HybridStaticDone(p) /\ FirstList(sRes'[p].results)
    \/ HybridConvDone(p) /\ FirstList(cRes'[p].results)
    \/ HybridJoin(p)
    \/ MergeConv(p)
    \/ LockAcquire(p)
    \/ UpdateValidate(p)
    \/ SetConfig(p)
    \/ UpdateDecay(p)
    \/ Close(p)

\* r.mu.RLock() or the first half of r.mu.Lock()
Acquires(p) == RLockEnter(p) \/ LockRequest(p)

NextFair ==
    \/ NewAgentRAGRetriever(NilPtr)
    \/ \E p \in Procs :
          \/ CallSearchHybrid(p) /\ qlimit'[p] = 0
          \/ CallSearch(p)
          \/ CallUpdateConfig(p) /\ cfgArg'[p] \in {"update", "negWeight"}
          \/ CallClose(p)
          \/ Cancel(p)
          \/ Acquires(p)
          \/ Returns(p)

\* Every adapter call returns and every goroutine that can run does (weak
\* fairness).  A goroutine blocked in RLock is woken by the Unlock of the
\* writer it waits for, ahead of any later writer, and a goroutine blocked in
\* Lock gets the writer mutex in its turn (strong fairness).
Fairness == \A p \in Procs : WF_vars(Returns(p)) /\ SF_vars(Acquires(p))

SpecFair == Init /\ [][NextFair]_vars /\ Fairness

\* ------------------------------------------- callers that keep the pointer
\* UpdateConfig and the constructor store the *MergeConfig they are given and
\* GetConfig returns it, so a caller holds a pointer to the object in force.
\* The caller assigns a field of it, taking no lock: a weight outside [0, 1]
\* or another half-life.
CallerWrites ==
    /\ built
    /\ \E ptr \in {r_config, rm_config} :
          \/ heap' = [heap EXCEPT ![ptr].StaticWeight = 0 - 1000]
          \/ heap' = [heap EXCEPT ![ptr].HalfLifeMinutes = 15]
    /\ heap' # heap
    /\ UNCHANGED <<built, ctorErr, r_config, r_td, rm_config, rm_td, closed, rlocks, wmutex,
                   transportCloses, clock, closeReturned, op, pc, qlimit, cfgArg, ctx, sRes,
                   cRes, used, nowAt, ret, afterClose, contacted, inForce, pureVars>>

\* one caller at a time makes the calls of the lock protocol and GetConfig
NextAlias ==
    \/ NewAgentRAGRetriever(NilPtr)
    \/ CallerWrites
    \/ \E p \in HybridCallers :
          \/ CallSearchHybrid(p) /\ qlimit'[p] = 0
          \/ CallSearch(p)
          \/ CallUpdateConfig(p) /\ cfgArg'[p] \in {"update", "negWeight"}
          \/ CallAccessor(p) /\ op'[p] = "GetConfig"
          \/ CallClose(p)
          \/ Accessor(p)
          \/ Acquires(p)
          \/ Returns(p)

SpecAlias == Init /\ [][NextAlias]_vars

\* ------------------------------------------------------------------ claims
HybridDone(p) == op[p] = "SearchHybrid" /\ pc[p] = "done"

\* the decay parameters NewTemporalDecay derives from a config
DecayOf(c) == NewTemporalDecay(c.HalfLifeMinutes, c.MinTemporalWeight, c.TemporalDecayEnabled)

\* C1: when exactly one sub-search of a finished SearchHybrid failed, the call
\* returned no error and a list the fusion engine returns for the surviving
\* list paired with an empty list, truncated to the query limit.
C1_PartialFailure ==
    \A p \in Procs :
        (/\ HybridDone(p)
         /\ sRes[p].done /\ cRes[p].done
         /\ (sRes[p].err # ErrNil) # (cRes[p].err # ErrNil))
        => /\ ret[p].err = ErrNil
           /\ \E merged \in Merge(UsedConfig(used[p]), used[p].td,
                                  IF sRes[p].err = ErrNil THEN sRes[p].results ELSE <<>>,
                                  IF cRes[p].err = ErrNil THEN cRes[p].results ELSE <<>>,
                                  nowAt[p]) :
                 ret[p].results = Truncate(merged, qlimit[p])

\* the static search failed in transport, the conversation search returned
\* B (0.9, 60 minutes old) and C (0.8, fresh): the call returns C = 0.32 and
\* B = 0.09 under the default config
C1_Witness ==
    \E p \in Procs :
        /\ HybridDone(p)
        /\ sRes[p].err = "transport" /\ cRes[p].err = ErrNil
        /\ ret[p].err = ErrNil
        /\ ret[p].results = <<Rec("C", 3200, SourceConversation, <<4>>),
                              Rec("B", 900, SourceConversation, <<0>>)>>

\* C2: a SearchHybrid whose context was cancelled before both sub-searches
\* had completed returns a cancellation error and no result list.
C2_CancellationSurfaced ==
    \A p \in Procs :
        (HybridDone(p) /\ ctx[p])
        => /\ ret[p].results = <<>>
           /\ \/ ret[p].err = ErrCancelled
              \/ ret[p].err = ErrBothFailed /\ ErrCancelled \in {ret[p].sErr, ret[p].cErr}

\* C3: a call of an adapter-backed operation that started after a Close had
\* returned never reaches the adapter and returns the closed-retriever error.
C3_ClosedRejects ==
    \A p \in Procs :
        (afterClose[p] /\ op[p] \in AdapterOps)
        => /\ ~contacted[p]
           /\ pc[p] \in {"start", "done"}
           /\ pc[p] = "done" => ret[p].err = ErrClosedRetriever

C3_Witness ==
    \E p, q \in Procs :
        /\ p # q
        /\ afterClose[p] /\ op[p] = "SearchHybrid" /\ pc[p] = "done"
        /\ ret[p].err = ErrClosedRetriever
        /\ afterClose[q] /\ op[q] = "PruneOldConversations" /\ pc[q] = "done"
        /\ ret[q].err = ErrClosedRetriever

\* C4: every finished merge of a SearchHybrid read its algorithm, both
\* weights, the RRF constant and the decay parameters from one single config
\* among those in force while the search held its read lock.
C4_ConfigAtomic ==
    \A p \in Procs :
        (HybridDone(p) /\ used[p] # NoUsed)
        => \E c \in inForce[p] :
              /\ UsedConfig(used[p]) = heap[c]
              /\ used[p].td = DecayOf(heap[c])

\* a search fused with the rrf config while an UpdateConfig of another caller
\* is past its Lock call
C4_Witness ==
    \E p, q \in Procs :
        /\ HybridDone(p) /\ used[p].alg = "rrf" /\ used[p].sw = 5000 /\ used[p].cw = 5000
        /\ ret[p].results # <<>>
        /\ op[q] = "UpdateConfig" /\ pc[q] \in {"wwait", "wlocked", "u_merger", "u_td"}

\* the validation errors a config deserves
Violations(c) ==
    {e \in {ErrInvalidWeight, ErrInvalidHalfLife, ErrInvalidMinWeight} :
        \/ e = ErrInvalidWeight /\ (c.StaticWeight \notin 0..Scale \/ c.ConversationWeight \notin 0..Scale)
        \/ e = ErrInvalidHalfLife /\ ~(c.HalfLifeMinutes > 0)
        \/ e = ErrInvalidMinWeight /\ c.MinTemporalWeight \notin 0..Scale}

C5_UpdateStep ==
    \A p \in Procs :
        (/\ op[p] = "UpdateConfig" /\ pc[p] = "wlocked" /\ pc'[p] # "wlocked"
         /\ Violations(heap[cfgArg[p]]) # {})
        => /\ pc'[p] = "done"
           /\ ret'[p].err \in Violations(heap[cfgArg[p]])
           /\ r_config' = r_config /\ rm_config' = rm_config
           /\ r_td' = r_td /\ rm_td' = rm_td

C5_ConstructorStep ==
    \A arg \in ConfigPtrs :
        (NewAgentRAGRetriever(arg) /\ Violations(heap[arg]) # {})
        => ~built' /\ ctorErr' \in Violations(heap[arg])

\* C5: UpdateConfig and the constructor answer a config that breaks a range
\* with a validation error that matches a broken range, and a failing
\* UpdateConfig leaves both configs and both sets of decay parameters as
\* they were.
C5_InvalidConfigRejected == [][C5_UpdateStep /\ C5_ConstructorStep]_vars

\* an UpdateConfig was refused for its minimum weight while the rrf config,
\* installed by an earlier update, is still in force everywhere
C5_Witness ==
    \E p \in Procs :
        /\ op[p] = "UpdateConfig" /\ pc[p] = "done" /\ cfgArg[p] = "bigMinWeight"
        /\ ret[p].err = ErrInvalidMinWeight
        /\ r_config = "rrf" /\ rm_config = "rrf"
        /\ r_td = DecayOf(heap["rrf"]) /\ rm_td = DecayOf(heap["rrf"])

\* C6: the config in force always has an algorithm in {weighted, rrf} and an
\* RRF constant k > 0.
C6_AlgorithmAndKValid ==
    built => /\ heap[r_config].Algorithm \in {"weighted", "rrf"}
             /\ heap[r_config].RRFK > 0

\* C7: every Close call returns without error and leaves the coordinator
\* closed, and the adapter's transport is closed exactly once however many
\* Close calls there are.
C7_CloseIdempotent ==
    /\ transportCloses <= 1
    /\ \A p \in Procs :
          (op[p] = "Close" /\ pc[p] = "done")
          => ret[p].err = ErrNil /\ closed /\ transportCloses = 1

C7_Witness ==
    /\ \A p \in Procs : op[p] = "Close" /\ pc[p] = "done" /\ ret[p].err = ErrNil
    /\ closed
    /\ transportCloses = 1

C8_Step ==
    /\ (~built /\ built') => ~closed'
    /\ closed' # closed
       => /\ ~closed /\ closed'
          /\ \E p \in Procs : op[p] = "Close" /\ pc[p] = "wlocked" /\ pc'[p] = "done"

\* C8: the coordinator is constructed open, and its closed flag changes only
\* in a Close call and only from open to closed.
C8_ClosedOnlyByClose == [][C8_Step]_vars

\* a closed coordinator on which an UpdateConfig and a search, both started
\* after the Close returned, have finished
C8_Witness ==
    \E p, q \in Procs :
        /\ closed
        /\ op[p] = "UpdateConfig" /\ pc[p] = "done" /\ afterClose[p] /\ ret[p].err = ErrNil
        /\ op[q] = "SearchStatic" /\ pc[q] = "done" /\ afterClose[q]

\* C9: with decay enabled and a timestamp not later than the reference time,
\* Apply returns a value between minWeight * score and score.
C9_DecayBounds ==
    (d_applied /\ d_in.td.enabled /\ d_in.ts <= d_in.now)
    => /\ FMul(d_in.td.minWeight, d_in.score) <= d_out
       /\ d_out <= d_in.score

\* a record two hours old whose multiplier is held at the floor of 0.5
C9_Witness ==
    /\ d_applied /\ d_in.td.enabled
    /\ d_in.ts < d_in.now /\ d_in.td.minWeight = 5000 /\ d_in.score = 9000
    /\ SubMinutes(d_in.now, d_in.ts) = 120 /\ d_out = 4500

\* C10: for a record stamped later than the reference time Apply returns
\* exactly the base score, and its fused score is not higher than that of the
\* same record stamped at the reference time.
C10_FutureClamped ==
    (d_applied /\ d_in.ts > d_in.now)
    => /\ d_out = d_in.score
       /\ d_fused <= FusedAlone(d_in, d_in.now)

\* ------------------------------------------- claims on SearchHybrid's result
\* C14: a SearchHybrid that fused returns, for a limit L > 0, at most L
\* records, the first L of the sorted fused list (all of them when the list
\* is not longer than L), and for L = 0 the whole fused list.
C14_Truncation ==
    \A p \in Procs :
        (HybridDone(p) /\ ret[p].err = ErrNil /\ used[p] # NoUsed)
        => \E merged \in Merge(UsedConfig(used[p]), used[p].td,
                               IF sRes[p].err = ErrNil THEN sRes[p].results ELSE <<>>,
                               IF cRes[p].err = ErrNil THEN cRes[p].results ELSE <<>>,
                               nowAt[p]) :
              /\ qlimit[p] > 0 => Len(ret[p].results) <= qlimit[p]
              /\ Len(ret[p].results) = IF qlimit[p] > 0 /\ qlimit[p] < Len(merged)
                                       THEN qlimit[p] ELSE Len(merged)
              /\ \A i \in DOMAIN ret[p].results : ret[p].results[i] = merged[i]

\* limit 1 on a fused list of three records: only the best one, C, is returned
C14_Witness ==
    \E p \in Procs :
        /\ HybridDone(p) /\ qlimit[p] = 1
        /\ Len(sRes[p].results) = 1 /\ Len(cRes[p].results) = 2
        /\ used[p].alg = "weighted"
        /\ ret[p].err = ErrNil
        /\ ret[p].results = <<Rec("C", 3200, SourceConversation, <<4>>)>>

\* C15: when both sub-searches of a SearchHybrid failed, the call returns no
\* result list and one composite error that carries both sub-search errors.
C15_CompositeError ==
    \A p \in Procs :
        (/\ HybridDone(p)
         /\ sRes[p].done /\ cRes[p].done
         /\ sRes[p].err # ErrNil /\ cRes[p].err # ErrNil)
        => /\ ret[p].results = <<>>
           /\ ret[p].err = ErrBothFailed
           /\ ret[p].sErr = sRes[p].err
           /\ ret[p].cErr = cRes[p].err

\* the static search failed in transport and the conversation search was
\* cancelled
C15_Witness ==
    \E p \in Procs :
        /\ HybridDone(p)
        /\ sRes[p].err = "transport" /\ cRes[p].err = ErrCancelled
        /\ ret[p].err = ErrBothFailed
        /\ ret[p].sErr = "transport" /\ ret[p].cErr = ErrCancelled

\* ------------------------------------------------------ claims on the fusion
RRFNames == {"rrf", "reciprocal_rank_fusion"}

\* the identifiers of a list of records
Ids(list) == {list[i].id : i \in DOMAIN list}

\* sum of score * w_static over the first i static records that carry id
RECURSIVE StaticSum(_, _, _, _)
StaticSum(list, id, sw, i) ==
    IF i = 0 THEN 0
    ELSE FAdd(StaticSum(list, id, sw, i - 1),
              IF list[i].id = id THEN FMul(list[i].score, sw) ELSE 0)

\* sum over the first i conversation records that carry id of the decay of
\* score * w_conv, or of score * w_conv for a record without timestamp
RECURSIVE ConvSum(_, _, _, _, _, _)
ConvSum(list, id, cw, td, now, i) ==
    IF i = 0 THEN 0
    ELSE FAdd(ConvSum(list, id, cw, td, now, i - 1),
              IF list[i].id # id THEN 0
              ELSE IF list[i].ts = NoTimestamp THEN FMul(list[i].score, cw)
              ELSE Apply(td, FMul(list[i].score, cw), list[i].ts[1], now))

\* C11: in weighted mode Merge returns the identifiers of the two lists, each
\* with the sum of its contributions: score * w_static for every static record
\* and the decayed score * w_conv for every conversation record carrying it.
C11_WeightedSums ==
    (m_applied /\ m_in.cfg.Algorithm \notin RRFNames)
    => /\ Ids(m_out) = Ids(m_static) \cup Ids(m_conv)
       /\ \A i \in DOMAIN m_out :
             m_out[i].score =
                 FAdd(StaticSum(m_static, m_out[i].id, m_in.cfg.StaticWeight, Len(m_static)),
                      ConvSum(m_conv, m_out[i].id, m_in.cfg.ConversationWeight,
                              DecayOf(m_in.cfg), m_in.now, Len(m_conv)))

\* C12: the list Merge returns is sorted descending by fused score: no record
\* is followed by a record with a higher fused score.
C12_SortedDescending ==
    m_applied => \A i, j \in DOMAIN m_out : i < j => ~FGt(m_out[j].score, m_out[i].score)

\* sum of w / (k + r) over the positions r (from 0) below i that carry id
RECURSIVE RankSum(_, _, _, _, _)
RankSum(list, id, k, w, i) ==
    IF i = 0 THEN 0
    ELSE FAdd(RankSum(list, id, k, w, i - 1),
              IF list[i].id = id THEN FMul(RankScore(k, i - 1), w) ELSE 0)

\* the rearrangements of a list that are descending by score
DescendingOrders(list) ==
    LET n == Len(list)
    IN  {[i \in 1..n |-> list[perm[i]]] :
            perm \in {f \in [1..n -> 1..n] :
                        /\ \A i, j \in 1..n : i # j => f[i] # f[j]
                        /\ \A i, j \in 1..n : i < j => list[f[i]].score >= list[f[j]].score}}

\* C13: in RRF mode every identifier gets the sum of w_static / (k + r) over
\* its positions r in the static list and of w_conv / (k + r) over its
\* positions r in the conversation list once decayed and re-sorted descending
\* by decayed score.
C13_RRFContributions ==
    (m_applied /\ m_in.cfg.Algorithm \in RRFNames)
    => /\ Ids(m_out) = Ids(m_static) \cup Ids(m_conv)
       /\ \E ranked \in DescendingOrders(m_bulk) :
             \A i \in DOMAIN m_out :
                m_out[i].score =
                    FAdd(RankSum(m_static, m_out[i].id, m_in.cfg.RRFK,
                                 m_in.cfg.StaticWeight, Len(m_static)),
                         RankSum(ranked, m_out[i].id, m_in.cfg.RRFK,
                                 m_in.cfg.ConversationWeight, Len(ranked)))

\* ----------------------------------------------------- claims on the adapter
\* C16: a successful PruneOldConversations returns the number of conversation
\* objects the backing store deleted for it, those stamped earlier than the
\* time of the call minus maxAge.
C16_PruneCount ==
    (a_call.op = "PruneOldConversations" /\ a_ret.err = ErrNil)
    => a_ret.count = a_deleted

\* C17: the object AddConversationTurn sends to the backing store carries as
\* its timestamp the UTC time of the call, whatever metadata map was passed.
C17_TurnTimestamp ==
    a_call.op = "AddConversationTurn"
    => a_req.properties["timestamp"] = JStr(FormatRFC3339(a_call.now))

\* C18: a conversation search whose query carries a time range sends both
\* bounds to the backing store and returns only records stamped at or after
\* since and before until; a static search sends no time bound.
C18_TimeRange ==
    /\ (a_call.op = "SearchConversation" /\ a_call.since # NoTimestamp)
       => /\ a_req.since = FormatRFC3339(a_call.since[1])
          /\ a_req.until = FormatRFC3339(a_call.until[1])
          /\ \A i \in DOMAIN a_ret.results :
                a_ret.results[i].ts # NoTimestamp
                => /\ a_call.since[1] <= a_ret.results[i].ts[1]
                   /\ a_ret.results[i].ts[1] < a_call.until[1]
    /\ a_call.op = "SearchStatic" => (a_req.since = "" /\ a_req.until = "")

\* the decoded data has a map at every step of the path, every key of the
\* path, and an array at its end
RECURSIVE WellFormed(_, _, _)
WellFormed(node, path, i) ==
    IF i > Len(path) THEN node.kind = "array"
    ELSE /\ node.kind = "map"
         /\ path[i] \in DOMAIN node.val
         /\ WellFormed(node.val[path[i]], path, i + 1)

\* C19: a search whose decoded response lacks a key of the result path, has a
\* node on the path that is no map, or ends the path on a node that is no
\* array, returns a parse error and no result list.
C19_ParseErrors ==
    \A className \in {StaticIndexName, ConversationIndexName} :
        (/\ a_call.op = (IF className = StaticIndexName THEN "SearchStatic"
                                                        ELSE "SearchConversation")
         /\ a_resp # JNull
         /\ ~WellFormed(a_resp, GetResultPath(className), 1))
        => a_ret.err \in {ErrKeyNotFound, ErrUnexpectedType}

\* the decoded objects of the conversation response of the Merge under way
RawConv == m_in.cresp.val["Get"].val[ConversationIndexName].val

RawId(obj) == obj.val["_additional"].val["id"].val
RawScore(obj) == obj.val["_additional"].val["score"].val

\* the object has no timestamp field, or one that is no RFC 3339 text
Unstamped(obj) ==
    \/ "timestamp" \notin DOMAIN obj.val
    \/ obj.val["timestamp"].kind # "string"
    \/ \A t \in DOMAIN TimeStrings : TimeStrings[t] # obj.val["timestamp"].val

\* the identifier occurs once in the two parsed lists together
OccursOnce(id) ==
    Cardinality({i \in DOMAIN m_static : m_static[i].id = id}) +
    Cardinality({i \in DOMAIN m_conv : m_conv[i].id = id}) = 1

\* C20: a conversation object whose timestamp is absent or unparseable is
\* parsed into a record without timestamp, the bulk decay returns that record
\* unchanged, and in weighted mode its fused score is score * w_conv at every
\* reference time, the fused record still carrying no timestamp.
C20_NoTimestampExempt ==
    m_applied
    => /\ Len(m_conv) = Len(RawConv)
       /\ Len(m_bulk) = Len(RawConv)
       /\ \A i \in DOMAIN RawConv :
             Unstamped(RawConv[i])
             => /\ m_conv[i] = Rec(RawId(RawConv[i]), RawScore(RawConv[i]),
                                   SourceConversation, NoTimestamp)
                /\ m_bulk[i] = m_conv[i]
                /\ (m_in.cfg.Algorithm \notin RRFNames /\ OccursOnce(m_conv[i].id))
                   => \E j \in DOMAIN m_out :
                         m_out[j] = Rec(RawId(RawConv[i]),
                                        FMul(RawScore(RawConv[i]), m_in.cfg.ConversationWeight),
                                        SourceConversation, NoTimestamp)

\* under the default config, half an hour after construction: the turn N
\* without timestamp is fused at 0.5 * 0.4 while the stamped turn B of the
\* same response is decayed to its floor
C20_Witness ==
    /\ m_applied
    /\ m_in.cfg = DefaultMergeConfig /\ m_in.now = 6
    /\ \E j \in DOMAIN m_out : m_out[j] = Rec("N", 2000, SourceConversation, NoTimestamp)
    /\ \E j \in DOMAIN m_out : m_out[j].id = "G" /\ m_out[j].score = 2400
    /\ \E j \in DOMAIN m_out : m_out[j].id = "B" /\ m_out[j].score < 3600

\* ---------------------------------------------------- claims on the escaping
\* an unescaped double quote: one preceded by an even number of backslashes
RECURSIVE BackslashesBefore(_, _)
BackslashesBefore(text, i) ==
    IF i > 1 /\ text[i - 1] = "\\" THEN 1 + BackslashesBefore(text, i - 1) ELSE 0

\* C21: reading the escaped text back as the body of a double-quoted GraphQL
\* string literal succeeds and yields exactly the text that was escaped, and
\* every double quote of the escaped text follows an odd number of backslashes.
C21_EscapeRoundTrip ==
    e_applied =>
        /\ e_read = [ok |-> TRUE, value |-> e_in]
        /\ \A i \in DOMAIN e_out :
              e_out[i] = "\"" => BackslashesBefore(e_out, i) % 2 = 1

\* a text with a backslash before a double quote, and a line feed, was escaped
C21_Witness ==
    /\ e_applied
    /\ e_in = <<"\\", "\"", "\n">>
    /\ e_out = <<"\\", "\\", "\\", "\"", "\\", "n">>

\* ------------------------------------------------- claims on two fusions
\* C22: a second Merge call with the same two lists, the same config and the
\* same reference time returns the list the first call returned, record for
\* record, so every truncation of the two lists keeps the same records.
C22_Deterministic ==
    m_again.done =>
        /\ m_again.results = m_out
        /\ \A limit \in 1..Len(m_out) :
              Ids(Truncate(m_again.results, limit)) = Ids(Truncate(m_out, limit))

\* ------------------------------------------ claims on the two sub-searches
\* a sub-search goroutine of the caller's SearchHybrid has been started and has
\* not returned
Running(p, sub) ==
    /\ op[p] = "SearchHybrid"
    /\ pc[p] \in {"locked", "m_conv"} \/ (pc[p] = "done" /\ ret[p].err # ErrClosedRetriever)
    /\ ~sub[p].done

\* C23: while the fusion of a SearchHybrid call is under way both sub-searches
\* have returned, and once the call has returned neither is still running.
C23_JoinBeforeFusion ==
    \A p \in Procs :
        op[p] = "SearchHybrid" /\ pc[p] \in {"m_conv", "done"} =>
            ~Running(p, sRes) /\ ~Running(p, cRes)

\* a fusion is under way after the conversation search failed and the static
\* search returned records
C23_Witness ==
    \E p \in Procs :
        /\ op[p] = "SearchHybrid" /\ pc[p] = "m_conv"
        /\ sRes[p].done /\ sRes[p].results # <<>>
        /\ cRes[p].done /\ cRes[p].err # ErrNil

\* ------------------------------------------------------ claims on progress
\* the operations that take the coordinator's lock and that the claim names
LockingOps == SearchOps \cup {"UpdateConfig", "Close"}

\* C24: a search, an UpdateConfig or a Close that has been called eventually
\* returns, holding neither the read lock nor the write lock.
C24_EveryCallReturns ==
    \A p \in Procs :
        (pc[p] = "start" /\ op[p] \in LockingOps)
            ~> (pc[p] = "done" /\ p \notin rlocks /\ p \notin wmutex)

\* a writer waits for a SearchHybrid whose sub-searches are still running
C24_Witness ==
    \E p, q \in Procs :
        /\ pc[p] = "wwait" /\ op[p] \in {"UpdateConfig", "Close"}
        /\ q \in rlocks /\ Running(q, sRes) /\ Running(q, cRes)

\* --------------------------------------------- claims on the closed state
\* C25: an UpdateConfig called after a Close has returned does not get past
\* its validation to the three assignments, and returns the closed-retriever
\* error.
C25_UpdateAfterClose ==
    \A p \in Procs :
        op[p] = "UpdateConfig" /\ afterClose[p] =>
            /\ pc[p] \notin {"u_merger", "u_td"}
            /\ pc[p] = "done" => ret[p].err = ErrClosedRetriever

\* ------------------------------------------------ claims on disabled decay
\* C26: with decay disabled Apply returns the base score whatever the
\* timestamp and the reference time, the bulk decay SearchConversation applies
\* returns the record's score, and the fused score of the record is its score
\* times the conversation weight.
C26_DisabledIsIdentity ==
    d_applied /\ ~d_in.td.enabled =>
        /\ d_out = d_in.score
        /\ d_fused = FMul(d_in.score, d_in.cw)
        /\ ApplyToResults(d_in.td, <<Rec("c", d_in.score, SourceConversation, <<d_in.ts>>)>>,
                          d_in.now)[1].score = d_in.score

\* a two-hour-old record went through a disabled decay
C26_Witness ==
    /\ d_applied /\ ~d_in.td.enabled
    /\ d_in.now - d_in.ts = 8
    /\ d_in.score = 9000 /\ d_out = 9000

\* --------------------------------------------- claims on the bulk decay
\* decayed has the length and the order of results; a record that is not a
\* conversation record or has no timestamp is the input record, and any other
\* record is the input record but for its score
Framed(results, decayed) ==
    /\ Len(decayed) = Len(results)
    /\ \A i \in DOMAIN results :
          /\ [decayed[i] EXCEPT !.score = results[i].score] = results[i]
          /\ results[i].source # SourceConversation \/ results[i].ts = NoTimestamp
                => decayed[i] = results[i]

\* C27: the bulk decay of the parsed conversation list, and of the static list
\* followed by the conversation list, keeps length and order, returns exempt
\* records as they are and changes nothing but the score of the others; the
\* list it was given is still the list parsed from the response.
C27_BulkDecayFrame ==
    m_applied =>
        /\ Framed(m_conv, m_bulk)
        /\ Framed(m_static \o m_conv,
                  ApplyToResults(DecayOf(m_in.cfg), m_static \o m_conv, m_in.now))
        /\ m_conv = parseConversationResults(m_in.cresp,
                        GetResultPath(ConversationIndexName)).results

\* decay on, half an hour after construction: of four conversation records
\* the three without a usable timestamp are returned as they are and the
\* fourth, B, keeps its place with a lower score
C27_Witness ==
    /\ m_applied
    /\ m_in.cfg.TemporalDecayEnabled /\ m_in.now = 6
    /\ Len(m_conv) = 4 /\ Len(m_bulk) = 4
    /\ m_bulk[1] = m_conv[1] /\ m_conv[1].ts = NoTimestamp
    /\ m_bulk[4].id = "B" /\ m_bulk[4].score < m_conv[4].score

\* ------------------------------------------- claims on the merged identifiers
\* C29: the list Merge returns holds no identifier twice and has as many
\* records as there are distinct identifiers in the two parsed lists together.
C29_OneRecordPerId ==
    m_applied =>
        /\ \A i, j \in DOMAIN m_out : m_out[i].id = m_out[j].id => i = j
        /\ Len(m_out) = Cardinality(Ids(m_static) \cup Ids(m_conv))

\* the static list holds X twice and the conversation list holds X: one
\* record comes out
C29_Witness ==
    /\ m_applied
    /\ Len(m_static) = 2 /\ Ids(m_static) = {"X"} /\ Ids(m_conv) = {"X"}
    /\ Len(m_out) = 1

\* ------------------------------------------- claims on the config in force
\* C30: the values the fusion engine's config pointer leads to change only in
\* the step of UpdateConfig that sets the engine's config, and the config in
\* force always passes Validate.
C30_Step ==
    /\ built /\ heap'[rm_config'] # heap[rm_config]
          => \E p \in Procs : op[p] = "UpdateConfig" /\ pc[p] = "u_merger" /\ pc'[p] = "u_td"
    /\ built' => Validate(heap'[rm_config']) = ErrNil

C30_OnlyUpdateConfig == [][C30_Step]_vars

\* an UpdateConfig is between its first and its last assignment
Updating == \E p \in Procs : pc[p] \in {"u_merger", "u_td"}

\* C28: except in the middle of an UpdateConfig, which holds the write lock,
\* the coordinator's decay parameters and the fusion engine's decay parameters
\* are those of the coordinator's config, and the fusion engine's config is
\* the coordinator's config.
C28_ThreeTogether ==
    built /\ ~Updating =>
        /\ r_td = DecayOf(heap[r_config])
        /\ rm_td = DecayOf(heap[r_config])
        /\ heap[rm_config] = heap[r_config]

====
